---------------------------- MODULE Spec2Model ----------------------------
(***************************************************************************)
(* State-machine model of IoTService (src/src/services/iotService.ts): the *)
(* device registry, the per-device bounded reading history, the 5-second   *)
(* telemetry poll, the per-device health-check timers and the query and    *)
(* maintenance operations.                                                 *)
(* Further sections model AIService (src/unnamed/part_000),                *)
(* EnterpriseIntegrationService and BlockchainService.                     *)
(*                                                                         *)
(* Numbers.  Sensor values, ranges and thresholds are IEEE doubles in the  *)
(* source; here they are integers in units of 0.01 (20.00 is 2000).        *)
(* Accuracy is in units of 0.01 as well (0.95 is 95).  Latitudes and       *)
(* longitudes are in millidegrees, distances and radii in metres.          *)
(* Date values are the logical time `now`, the number of 5-second poll     *)
(* ticks that have fired.  crypto.randomUUID() is a fresh number taken     *)
(* from the counter nextId.  Math.random() draws are inputs of the         *)
(* actions, taken from small sample sets.                                  *)
(***************************************************************************)
EXTENDS Integers, Sequences, FiniteSets, TLC

VARIABLES
  devices,        \* Map<string, IoTDevice>, as the sequence of its values in insertion order
  sensorReadings, \* Map<string, SensorReading[]>: device id -> history
  eventHandlers,  \* Map<string, Function[]>: event type -> handlers
  healthTimers,   \* the live setInterval health checks, one entry per timer: the device id
  poll,           \* position of the running telemetry interval callback
  now,            \* logical time: poll ticks fired so far
  nextId,         \* source of fresh UUIDs
  alerts,         \* the alerts raised by triggerAlert, in order
  appended,       \* history variable: device id -> ids of all readings ever appended, in order
  verdicts,       \* history variable: the (type, value, verdict) triples checkThresholds produced
  fwUpdates,      \* updateDeviceFirmware calls waiting for the update timer
  ret,            \* what the API call of the last step returned to its caller
  produced,       \* history variable: reading id -> the sensor and the telemetry callback
                  \* (interval, period) it was stored for
  intervals,      \* the telemetry intervals: for each, the period in which it last fired
  cycles,         \* telemetry callbacks that other callbacks interleave with at their awaits
  assistants,     \* AIService: Map<string, AIAssistant>, values in insertion order
  models,         \* AIService: Map<string, PredictiveModel>, values in insertion order
  providerCalls,  \* AIService: the endpoints callAIProvider was called with, in order
  integrations,   \* EnterpriseIntegrationService: Map<string, BaseIntegration>, values in insertion order
  contracts,      \* BlockchainService: Map<string, SmartContract>, values in insertion order
  records,        \* BlockchainService: Map<string, BlockchainRecord>, values in insertion order
  recordCalls,    \* BlockchainService: createVerifiableRecord calls suspended at an await
  clock,          \* BlockchainService: the millisecond new Date() reads
  invoked,        \* history variable: the handler calls triggerEventHandlers made, in order
  fwLatest,       \* updateDeviceFirmware calls suspended at await getLatestFirmwareVersion
  fwStarted       \* history variable: the updateDeviceFirmware calls of registered devices, in call order

vars == <<devices, sensorReadings, eventHandlers, healthTimers, poll, now,
          nextId, alerts, appended, verdicts, fwUpdates, ret,
          produced, intervals, cycles, assistants, models, providerCalls,
          integrations, contracts, records, recordCalls, clock, invoked,
          fwLatest, fwStarted>>

\* the state of the AIService instance
aiVars == <<assistants, models, providerCalls>>

\* the state of the EnterpriseIntegrationService and BlockchainService instances
svcVars == <<integrations, contracts, records, recordCalls, clock>>

\* the firmware updates that have not reached their update timer, and the call order
fwVars == <<fwLatest, fwStarted>>

\* the telemetry intervals and their interleaved callbacks
timerVars == <<intervals, cycles>>

-----------------------------------------------------------------------------
(* Bounds of the exploration *)

MaxDevices == 2
MaxTicks == 1
OpsDevices == 1
OpsTicks == 1
MaxHandlers == 1
MaxUpdates == 1
FirmwareDevices == 1
FirmwareUpdates == 2
MaxAssistants == 1
MaxModels == 1
MaxPredictions == 1
MaxProviderCalls == 1
MaxIntegrations == 2
CycleDevices == 1
CycleTicks == 2
MaxCycles == 2
MaxIntervals == 2
IntervalDevices == 1
IntervalTicks == 1
AnomalyTicks == 6
ThresholdTicks == 6
HistFill == 996
HistTicks == 7
HandlerDevices == 2
HandlerTicks == 1
HandlerLimit == 2
OverlapDevices == 1
OverlapUpdates == 2
MaxRecords == 3
MaxClock == 1
MaxContracts == 2

(* Program constants *)

HistoryLimit == 1000
AnomalyWindow == 10
AnomalyMinReadings == 5
EarthRadiusKm == 6371

-----------------------------------------------------------------------------
(* Generic helpers *)

Abs(x) == IF x < 0 THEN 0 - x ELSE x

Max2(a, b) == IF a >= b THEN a ELSE b

Min2(a, b) == IF a <= b THEN a ELSE b

Range(s) == {s[i] : i \in 1..Len(s)}

\* Array.prototype.slice(-n): the last n elements (all of them if fewer)
SliceLast(s, n) == IF Len(s) <= n THEN s ELSE SubSeq(s, Len(s) - n + 1, Len(s))

RECURSIVE SumValues(_)
SumValues(s) == IF s = <<>> THEN 0 ELSE s[1].value + SumValues(Tail(s))

\* the keys of the device map
DeviceIds == {devices[i].id : i \in 1..Len(devices)}

\* Map.get(id) on the device map, as the place of the device
DeviceIndex(id) == CHOOSE i \in 1..Len(devices) : devices[i].id = id

-----------------------------------------------------------------------------
(* Inputs: device configurations and random draws.  The devices lie on the    *)
(* meridian lng = 0, at latitudes 0, 0.009 and 0.010 degrees: 0 m, 1000 m and  *)
(* 1111 m from the query point of the location filters.                       *)

\* a humidity sensor with a wide range, as getEnvironmentalSensors declares it
HumidityWide == [type |-> "humidity", unit |-> "%", range |-> <<0, 10000>>, accuracy |-> 200]

\* a humidity sensor whose range ends below the values the wide one reports
HumidityNarrow == [type |-> "humidity", unit |-> "%", range |-> <<2000, 7998>>, accuracy |-> 70]

\* a sensor whose range is given upside down; registerDevice accepts it
HumidityInverted == [type |-> "humidity", unit |-> "%", range |-> <<9000, 1000>>, accuracy |-> 95]

CameraSensor == [type |-> "camera", unit |-> "fps", range |-> <<0, 3000>>, accuracy |-> 90]

Wifi == [type |-> "wifi", strength |-> 80, protocol |-> "WiFi 6"]

DeviceConfigs ==
  { [type |-> "sensor", location |-> [lat |-> 0, lng |-> 0],
     sensors |-> <<HumidityWide>>, connectivity |-> Wifi],
    [type |-> "sensor", location |-> [lat |-> 9, lng |-> 0],
     sensors |-> <<HumidityNarrow, HumidityWide>>, connectivity |-> Wifi],
    [type |-> "gateway", location |-> [lat |-> 10, lng |-> 0],
     sensors |-> <<>>, connectivity |-> Wifi],
    [type |-> "sensor", location |-> [lat |-> 10, lng |-> 0],
     sensors |-> <<HumidityInverted>>, connectivity |-> Wifi],
    [type |-> "camera", location |-> [lat |-> 0, lng |-> 0],
     sensors |-> <<CameraSensor>>, connectivity |-> Wifi] }

\* The Math.random() draws of one generateSensorReading call.  The table of
\* getBaseValueForSensor draws one number per random entry; fallback is the
\* Math.random() * 100 taken when the entry is falsy; noise is
\* (Math.random() - 0.5) * 0.1, which lies in [-0.05, 0.05).  A humidity sensor
\* that does not clamp reads 79.98 or 80.03, a camera 29.99 or 30.04.
Draws ==
  { [temperature |-> 2000, humidity |-> h, pressure |-> 101300, motion |-> 2500,
     proximity |-> p, microphone |-> 6000, fallback |-> 4200, noise |-> n] :
      h \in {7999}, p \in {100}, n \in {0 - 1, 4} }

-----------------------------------------------------------------------------
(* Pure functions of the service *)

\* getBaseValueForSensor: baseValues[type] || Math.random() * 100
getBaseValueForSensor(type, draw) ==
  LET entry == CASE type = "temperature" -> draw.temperature
                 [] type = "humidity"    -> draw.humidity
                 [] type = "pressure"    -> draw.pressure
                 [] type = "motion"      -> draw.motion
                 [] type = "proximity"   -> draw.proximity
                 [] type = "camera"      -> 3000
                 [] type = "microphone"  -> draw.microphone
                 [] OTHER                -> 0   \* undefined: falsy
  IN IF entry = 0 THEN draw.fallback ELSE entry

\* a quality that looks at the accuracy only
assessDataQualityByAccuracy(value, sensor) ==
  IF sensor.accuracy > 90 THEN "excellent"
  ELSE IF sensor.accuracy > 80 THEN "good"
  ELSE IF sensor.accuracy > 60 THEN "fair"
  ELSE "poor"

\* assessDataQuality
assessDataQuality(value, sensor) ==
  LET withinRange == value >= sensor.range[1] /\ value <= sensor.range[2]
      accuracy == sensor.accuracy
  IN IF withinRange /\ accuracy > 90 THEN "excellent"
     ELSE IF withinRange /\ accuracy > 80 THEN "good"
     ELSE IF withinRange /\ accuracy > 60 THEN "fair"
     ELSE "poor"

\* Math.max(range[0], Math.min(range[1], x))
Clamp(lo, hi, x) == Max2(lo, Min2(hi, x))

\* generateSensorReading; id is the UUID drawn for the reading, time is new Date()
\* a reading tagged with the id of its sensor in place of its device
generateSensorReadingBySensor(sensor, device, draw, id, time) ==
  LET baseValue == getBaseValueForSensor(sensor.type, draw)
      value == Clamp(sensor.range[1], sensor.range[2], baseValue + draw.noise)
  IN [id |-> id, value |-> value, timestamp |-> time,
      quality |-> assessDataQuality(value, sensor),
      metadata |-> [deviceId |-> sensor.id, sensorType |-> sensor.type,
                    location |-> device.location,
                    connectivity |-> device.connectivity.strength]]

generateSensorReading(sensor, device, draw, id, time) ==
  LET baseValue == getBaseValueForSensor(sensor.type, draw)
      value == Clamp(sensor.range[1], sensor.range[2], baseValue + draw.noise)
  IN [id |-> id, value |-> value, timestamp |-> time,
      quality |-> assessDataQuality(value, sensor),
      metadata |-> [deviceId |-> device.id, sensorType |-> sensor.type,
                    location |-> device.location,
                    connectivity |-> device.connectivity.strength]]

\* Sum over the window of (n * r.value - total)^2, i.e. n^2 times the sum of
\* squared deviations from the mean total / n
RECURSIVE SumSqDev(_, _, _)
SumSqDev(s, n, total) ==
  IF s = <<>> THEN 0
  ELSE (n * s[1].value - total) * (n * s[1].value - total) + SumSqDev(Tail(s), n, total)

\* (detectAnomalyInclusive is the check with >= in place of >.)
\* The possible results of detectAnomaly for `reading` against the stored
\* history `readings` (which already ends with `reading` when the poll calls it).
\* With n the window length, average = total / n and
\* stdDev = sqrt(sum (r - average)^2 / n), the test
\*     Math.abs(reading.value - average) > 2 * stdDev
\* is, in exact arithmetic, n * (n * v - total)^2 > 4 * SumSqDev.  The source
\* evaluates it in IEEE doubles: when the two sides are equal as real numbers
\* and not zero, rounding of the division, the squares and the square root
\* decides the comparison, and both results occur: in doubles the windows
\* 1, 1, 1, 1, 0.98 and 79.98, 79.98, 79.98, 79.98, 80.03 (79.99 - 0.01 and
\* 79.99 + 0.04) give true, the window 1, 1, 1, 1, 0.97 gives false.  A tie is
\* therefore a choice between both results.  When every value of the
\* window is equal, all deviations are the same double d and the test is
\* |d| > 2 * |d|, false.
detectAnomalyInclusive(readings, reading) ==
  LET recentReadings == SliceLast(readings, AnomalyWindow)
      n == Len(recentReadings)
      total == SumValues(recentReadings)
      lhs == n * (n * reading.value - total) * (n * reading.value - total)
      rhs == 4 * SumSqDev(recentReadings, n, total)
  IN IF n < AnomalyMinReadings THEN {FALSE}
     ELSE IF lhs >= rhs THEN {TRUE}
     ELSE {FALSE}

detectAnomaly(readings, reading) ==
  LET recentReadings == SliceLast(readings, AnomalyWindow)
      n == Len(recentReadings)
      total == SumValues(recentReadings)
      lhs == n * (n * reading.value - total) * (n * reading.value - total)
      rhs == 4 * SumSqDev(recentReadings, n, total)
  IN IF n < AnomalyMinReadings THEN {FALSE}
     ELSE IF lhs > rhs THEN {TRUE}
     ELSE IF lhs < rhs \/ rhs = 0 THEN {FALSE}
     ELSE {TRUE, FALSE}

\* the threshold table of checkThresholds; severity "undefined" stands for a
\* type without an entry
Thresholds(type) ==
  CASE type = "temperature" -> [min |-> 0 - 1000, max |-> 4000, severity |-> "medium"]
    [] type = "humidity"    -> [min |-> 2000, max |-> 8000, severity |-> "low"]
    [] type = "motion"      -> [min |-> 0, max |-> 8000, severity |-> "high"]
    [] type = "microphone"  -> [min |-> 0, max |-> 8500, severity |-> "medium"]
    [] OTHER                -> [min |-> 0, max |-> 0, severity |-> "undefined"]

\* a threshold check that takes the sensor's declared range end for the maximum
checkThresholdsByRange(sensor, reading) ==
  LET threshold == Thresholds(sensor.type)
  IN IF threshold.severity = "undefined" THEN "null"
     ELSE IF reading.value < threshold.min \/ reading.value >= sensor.range[2]
          THEN threshold.severity
          ELSE "null"

\* a threshold check that also reports a value equal to the maximum
checkThresholdsInclusive(sensor, reading) ==
  LET threshold == Thresholds(sensor.type)
  IN IF threshold.severity = "undefined" THEN "null"
     ELSE IF reading.value < threshold.min \/ reading.value >= threshold.max
          THEN threshold.severity
          ELSE "null"

\* checkThresholds: the severity of the violated threshold, or "null"
checkThresholds(sensor, reading) ==
  LET threshold == Thresholds(sensor.type)
  IN IF threshold.severity = "undefined" THEN "null"
     ELSE IF reading.value < threshold.min \/ reading.value > threshold.max
          THEN threshold.severity
          ELSE "null"

\* calculateDistance.  With dLng = 0 the haversine term a is sin^2(dLat / 2),
\* so c = |dLat| in radians and the result is R * |dLat| * pi / 180; with both
\* points on the equator the same holds for dLng.  The modelled locations lie
\* on one meridian.  Result in metres, angles in millidegrees
\* (pi / 180 = 0.017453).
calculateDistance(loc1, loc2) ==
  LET dLat == loc2.lat - loc1.lat
      dLng == loc2.lng - loc1.lng
  IN CASE dLng = 0 -> (EarthRadiusKm * Abs(dLat) * 17453) \div 1000000
       [] dLat = 0 /\ loc1.lat = 0 -> (EarthRadiusKm * Abs(dLng) * 17453) \div 1000000

-----------------------------------------------------------------------------
(* State after construction.  initializeIoT starts the telemetry interval;    *)
(* nothing is registered.                                                     *)

\* new EnterpriseIntegrationService(), new BlockchainService(): empty maps
InitSvc ==
  /\ integrations = <<>>
  /\ contracts = <<>>
  /\ records = <<>>
  /\ recordCalls = <<>>
  /\ clock = 0

Idle == [pc |-> "idle", di |-> 0, si |-> 0]

\* the last step was a timer callback, or a call that has not returned yet
NoReturn == [op |-> "none"]

Init ==
  /\ devices = <<>>
  /\ sensorReadings = <<>>
  /\ eventHandlers = <<>>
  /\ healthTimers = <<>>
  /\ poll = Idle
  /\ now = 0
  /\ nextId = 1
  /\ alerts = <<>>
  /\ appended = <<>>
  /\ verdicts = {}
  /\ fwUpdates = <<>>
  /\ ret = NoReturn
  /\ produced = <<>>
  /\ intervals = <<0>>
  /\ cycles = <<>>
  /\ assistants = <<>>
  /\ models = <<>>
  /\ providerCalls = <<>>
  /\ InitSvc
  /\ invoked = <<>>
  /\ fwLatest = <<>>
  /\ fwStarted = <<>>

\* Map.set(key, value) on a map kept as a function
MapSet(m, k, v) == [x \in DOMAIN m \cup {k} |-> IF x = k THEN v ELSE m[x]]

-----------------------------------------------------------------------------
(* registerDevice *)

\* the sensor built from the i-th sensor config; two UUIDs are drawn per
\* sensor (its id, then its lastReading's id) after the device's own
NewSensor(sensorConfig, i, firstId) ==
  [id |-> firstId + 2 * i - 1,
   type |-> sensorConfig.type,
   unit |-> sensorConfig.unit,
   range |-> sensorConfig.range,
   accuracy |-> sensorConfig.accuracy,
   lastReading |-> [id |-> firstId + 2 * i, value |-> 0, timestamp |-> now,
                    quality |-> "good", metadata |-> [empty |-> TRUE]],
   calibration |-> [lastCalibrated |-> now, offset |-> 0, scale |-> 1]]

\* the device object literal of registerDevice, given its status and its sensors
DeviceLiteral(deviceConfig, id, status, sensors) ==
  [id |-> id,
   type |-> deviceConfig.type,
   location |-> deviceConfig.location,
   status |-> status,
   sensors |-> sensors,
   connectivity |-> [type |-> deviceConfig.connectivity.type,
                     strength |-> deviceConfig.connectivity.strength,
                     protocol |-> deviceConfig.connectivity.protocol,
                     lastSeen |-> now, dataUsage |-> 0],
   firmware |-> [version |-> "1.0.0", lastUpdate |-> now,
                 updateAvailable |-> FALSE, autoUpdate |-> TRUE],
   security |-> [encrypted |-> TRUE, lastSecurityScan |-> now, vulnerabilities |-> <<>>]]

\* a device whose sensor list drops the last configured sensor
NewDeviceDropLast(deviceConfig, id) ==
  DeviceLiteral(deviceConfig, id, "online",
                [i \in 1..(Len(deviceConfig.sensors) - 1) |->
                   NewSensor(deviceConfig.sensors[i], i, id)])

\* a device that starts offline
NewDeviceOffline(deviceConfig, id) ==
  DeviceLiteral(deviceConfig, id, "offline",
                [i \in 1..Len(deviceConfig.sensors) |->
                   NewSensor(deviceConfig.sensors[i], i, id)])

\* the device registerDevice builds: status 'online', deviceConfig.sensors.map(...)
NewDevice(deviceConfig, id) ==
  DeviceLiteral(deviceConfig, id, "online",
                [i \in 1..Len(deviceConfig.sensors) |->
                   NewSensor(deviceConfig.sensors[i], i, id)])

\* monitoring that starts two intervals for the device
startDeviceMonitoringTwice(timers, device) == Append(Append(timers, device.id), device.id)

\* startDeviceMonitoring: one more interval, whose handle is dropped
startDeviceMonitoring(timers, device) == Append(timers, device.id)

RegisterDevice(deviceConfig, maxDevices) ==
  /\ Len(devices) < maxDevices
  /\ LET device == NewDevice(deviceConfig, nextId)
     IN /\ devices' = Append(devices, device)
        /\ sensorReadings' = MapSet(sensorReadings, device.id, <<>>)
        /\ appended' = MapSet(appended, device.id, <<>>)
        /\ healthTimers' = startDeviceMonitoring(healthTimers, device)
        /\ nextId' = nextId + 1 + 2 * Len(deviceConfig.sensors)
        /\ ret' = [op |-> "registerDevice", config |-> deviceConfig, device |-> device]
  /\ UNCHANGED <<eventHandlers, poll, now, alerts, verdicts, fwUpdates>>
  /\ UNCHANGED <<produced, timerVars, aiVars, svcVars, invoked, fwVars>>

-----------------------------------------------------------------------------
(* getDevices.  A filter that is absent (or falsy) is "none". *)

\* filters.location left out
NoLocation == [given |-> FALSE, lat |-> 0, lng |-> 0, radius |-> 0]

Near(radius) == [given |-> TRUE, lat |-> 0, lng |-> 0, radius |-> radius]

Filters ==
  { [type |-> "none", status |-> "none", location |-> NoLocation],
    [type |-> "sensor", status |-> "none", location |-> NoLocation],
    [type |-> "none", status |-> "online", location |-> NoLocation],
    [type |-> "none", status |-> "none", location |-> Near(0)],
    [type |-> "none", status |-> "none", location |-> Near(999)],
    [type |-> "none", status |-> "none", location |-> Near(1000)],
    [type |-> "sensor", status |-> "online", location |-> Near(1000)] }

\* the location filter with a strict comparison
WithinRadiusStrict(device, location) ==
  calculateDistance(device.location, location) < location.radius

\* the predicate of the location filter
WithinRadius(device, location) ==
  calculateDistance(device.location, location) <= location.radius

\* a lookup that applies the first supplied filter only
getDevicesFirstFilter(filters) ==
  LET TypeOk(device) == device.type = filters.type
      StatusOk(device) == device.status = filters.status
      LocationOk(device) == WithinRadius(device, filters.location)
  IN IF filters.type # "none" THEN SelectSeq(devices, TypeOk)
     ELSE IF filters.status # "none" THEN SelectSeq(devices, StatusOk)
     ELSE IF filters.location.given THEN SelectSeq(devices, LocationOk)
     ELSE devices

getDevices(filters) ==
  LET TypeOk(device) == device.type = filters.type
      StatusOk(device) == device.status = filters.status
      LocationOk(device) == WithinRadius(device, filters.location)
      all == devices
      byType == IF filters.type # "none" THEN SelectSeq(all, TypeOk) ELSE all
      byStatus == IF filters.status # "none" THEN SelectSeq(byType, StatusOk) ELSE byType
      byLocation == IF filters.location.given THEN SelectSeq(byStatus, LocationOk)
                    ELSE byStatus
  IN byLocation

GetDevices(filters) ==
  /\ ret' = [op |-> "getDevices", filters |-> filters,
             devices |-> [i \in 1..Len(getDevices(filters)) |-> getDevices(filters)[i].id]]
  /\ UNCHANGED <<devices, sensorReadings, eventHandlers, healthTimers, poll, now,
                 nextId, alerts, appended, verdicts, fwUpdates>>
  /\ UNCHANGED <<produced, timerVars, aiVars, svcVars, invoked, fwVars>>

-----------------------------------------------------------------------------
(* The telemetry interval of startDataCollection *)

\* the interval fires: the callback starts iterating this.devices.values()
PollTick(maxTicks) ==
  /\ poll.pc = "idle"
  /\ now < maxTicks
  /\ now' = now + 1
  /\ poll' = [pc |-> "iter", di |-> 1, si |-> 0]
  /\ ret' = NoReturn
  /\ UNCHANGED <<devices, sensorReadings, eventHandlers, healthTimers, nextId,
                 alerts, appended, verdicts, fwUpdates>>
  /\ UNCHANGED <<produced, timerVars, aiVars, svcVars, invoked, fwVars>>

\* a for-of step that collects from every device, whatever its status
PollDeviceAnyStatus ==
  /\ poll.pc = "iter"
  /\ poll' = IF poll.di > Len(devices) THEN Idle
             ELSE IF Len(devices[poll.di].sensors) > 0
                  THEN [pc |-> "collect", di |-> poll.di, si |-> 1]
                  ELSE [pc |-> "iter", di |-> poll.di + 1, si |-> 0]
  /\ ret' = NoReturn
  /\ UNCHANGED <<devices, sensorReadings, eventHandlers, healthTimers, now, nextId,
                 alerts, appended, verdicts, fwUpdates>>
  /\ UNCHANGED <<produced, timerVars, aiVars, svcVars, invoked, fwVars>>

\* the for-of step: the next device of the (live) map iterator, tested for
\* status === 'online'; collectSensorData of a device without sensors returns
PollDevice ==
  /\ poll.pc = "iter"
  /\ poll' = IF poll.di > Len(devices) THEN Idle
             ELSE IF devices[poll.di].status = "online" /\ Len(devices[poll.di].sensors) > 0
                  THEN [pc |-> "collect", di |-> poll.di, si |-> 1]
                  ELSE [pc |-> "iter", di |-> poll.di + 1, si |-> 0]
  /\ ret' = NoReturn
  /\ UNCHANGED <<devices, sensorReadings, eventHandlers, healthTimers, now, nextId,
                 alerts, appended, verdicts, fwUpdates>>
  /\ UNCHANGED <<produced, timerVars, aiVars, svcVars, invoked, fwVars>>

\* eviction that keeps the oldest entries instead of the newest
KeepFirst(deviceReadings) ==
  IF Len(deviceReadings) > HistoryLimit
  THEN SubSeq(deviceReadings, 1, HistoryLimit)
  ELSE deviceReadings

\* if (length > 1000) splice(0, length - 1000)
KeepLast(deviceReadings) ==
  IF Len(deviceReadings) > HistoryLimit
  THEN SubSeq(deviceReadings, Len(deviceReadings) - HistoryLimit + 1, Len(deviceReadings))
  ELSE deviceReadings

\* a dispatch that gives up at the first handler that throws
triggerEventHandlersStopping(handlers, eventType, readingId) ==
  LET list == IF eventType \in DOMAIN handlers THEN handlers[eventType] ELSE <<>>
      failing == {i \in 1..Len(list) : list[i].kind = "throws"}
      last == IF failing = {} THEN Len(list)
              ELSE CHOOSE i \in failing : \A j \in failing : i <= j
  IN [i \in 1..last |->
        [event |-> eventType, handler |-> list[i], reading |-> readingId,
         outcome |-> IF list[i].kind = "throws" THEN "caught" ELSE "returned"]]

\* triggerEventHandlers: the calls it makes, in order; a handler that throws or
\* rejects ends in the catch block and the loop goes on
triggerEventHandlers(handlers, eventType, readingId) ==
  LET list == IF eventType \in DOMAIN handlers THEN handlers[eventType] ELSE <<>>
  IN [i \in 1..Len(list) |->
        [event |-> eventType, handler |-> list[i], reading |-> readingId,
         outcome |-> IF list[i].kind = "throws" THEN "caught" ELSE "returned"]]

\* the handler calls of processReading: triggerAlert('anomaly'),
\* triggerAlert('threshold'), then the sensor event
DispatchFor(handlers, sensor, reading, isAnomaly, thresholdViolation) ==
  (IF isAnomaly THEN triggerEventHandlers(handlers, "alert:anomaly", reading.id) ELSE <<>>)
  \o (IF thresholdViolation # "null"
      THEN triggerEventHandlers(handlers, "alert:threshold", reading.id) ELSE <<>>)
  \o triggerEventHandlers(handlers, "sensor:" \o sensor.type, reading.id)

\* the alerts processReading raises for a reading: anomaly first, then threshold
AlertsFor(device, sensor, reading, isAnomaly, thresholdViolation, prior) ==
  (IF isAnomaly
   THEN <<[type |-> "anomaly", deviceId |-> device.id, sensorId |-> sensor.id,
           reading |-> reading.id, severity |-> "medium", prior |-> prior]>>
   ELSE <<>>)
  \o
  (IF thresholdViolation # "null"
   THEN <<[type |-> "threshold", deviceId |-> device.id, sensorId |-> sensor.id,
           reading |-> reading.id, severity |-> thresholdViolation, prior |-> prior]>>
   ELSE <<>>)

\* one iteration of the sensor loop of collectSensorData, processReading included
CollectSensor(draw) ==
  /\ poll.pc = "collect"
  /\ LET device == devices[poll.di]
         sensor == device.sensors[poll.si]
         reading == generateSensorReading(sensor, device, draw, nextId, now)
         stored == IF device.id \in DOMAIN sensorReadings
                   THEN sensorReadings[device.id] ELSE <<>>
         deviceReadings == KeepLast(Append(stored, reading))
         polled == [sensor EXCEPT !.lastReading = reading]
         thresholdViolation == checkThresholds(polled, reading)
     IN /\ sensorReadings' = MapSet(sensorReadings, device.id, deviceReadings)
        /\ appended' = MapSet(appended, device.id, Append(appended[device.id], reading.id))
        /\ produced' = MapSet(produced, reading.id,
                              [sensor |-> sensor.id, interval |-> 1, period |-> now])
        /\ devices' = [devices EXCEPT ![poll.di].sensors[poll.si].lastReading = reading]
        /\ \E isAnomaly \in detectAnomaly(deviceReadings, reading) :
             /\ alerts' = alerts \o AlertsFor(device, polled, reading, isAnomaly,
                                              thresholdViolation, Len(appended[device.id]))
             /\ invoked' = invoked \o DispatchFor(eventHandlers, polled, reading,
                                                  isAnomaly, thresholdViolation)
        /\ verdicts' = verdicts \cup
             {[type |-> sensor.type, value |-> reading.value, verdict |-> thresholdViolation]}
        /\ nextId' = nextId + 1
        /\ poll' = IF poll.si < Len(device.sensors)
                   THEN [poll EXCEPT !.si = poll.si + 1]
                   ELSE [pc |-> "iter", di |-> poll.di + 1, si |-> 0]
  /\ ret' = NoReturn
  /\ UNCHANGED <<eventHandlers, healthTimers, now, fwUpdates, timerVars, aiVars, svcVars, fwVars>>

-----------------------------------------------------------------------------
(* The telemetry callback at the grain of its awaits.  Every await of the     *)
(* callback gives way to whatever is queued; a handler registered through the *)
(* public addEventListener may wait on a timer, and then health checks, API   *)
(* calls and further firings of the interval run before the callback goes on. *)
(* A callback in flight is a record: the interval that fired it, the period   *)
(* it was fired for, and where it stands:                                     *)
(*   "iter"      at the for-of step for the di-th device                      *)
(*   "store"     generateSensorReading has returned `reading` for sensor si   *)
(*   "process"   the reading is stored, detectAnomaly has returned isAnomaly  *)
(*   "generate"  processReading has returned, sensor si is next               *)

\* the reading slot of a callback that holds no generated reading
NoReading ==
  [id |-> 0, value |-> 0, timestamp |-> 0, quality |-> "good", metadata |-> [empty |-> TRUE]]

\* startDataCollection: one more interval, first due in the next period; the
\* handle is dropped
StartDataCollection(maxIntervals) ==
  /\ Len(intervals) < maxIntervals
  /\ intervals' = Append(intervals, now)
  /\ ret' = [op |-> "startDataCollection"]
  /\ UNCHANGED <<devices, sensorReadings, eventHandlers, healthTimers, poll, now, nextId,
                 alerts, appended, verdicts, fwUpdates, produced, cycles, aiVars, svcVars, invoked, fwVars>>

\* the first device from the di-th on whose status is 'online'
RECURSIVE NextOnline(_)
NextOnline(di) ==
  IF di > Len(devices) THEN di
  ELSE IF devices[di].status = "online" THEN di
  ELSE NextOnline(di + 1)

\* The for-of loop of the callback `cycle`, run from the di-th device up to its
\* next await: offline devices are passed without an await; collectSensorData
\* of a device without sensors returns at once and is awaited; for a device with
\* sensors the first reading is generated and awaited.  <<>> when the loop ends.
ForOf(cycle, di, draw, time) ==
  LET k == NextOnline(di)
  IN IF k > Len(devices) THEN <<>>
     ELSE IF Len(devices[k].sensors) = 0
          THEN <<[cycle EXCEPT !.pc = "iter", !.di = k + 1, !.si = 0, !.reading = NoReading]>>
          ELSE <<[cycle EXCEPT !.pc = "store", !.di = k, !.si = 1,
                    !.reading = generateSensorReading(devices[k].sensors[1], devices[k],
                                                      draw, nextId, time)]>>

\* the callbacks in flight with the c-th one replaced by `now it is`
ReplaceCycle(c, cycle) ==
  SubSeq(cycles, 1, c - 1) \o cycle \o SubSeq(cycles, c + 1, Len(cycles))

\* one UUID is drawn when the loop stopped at a generated reading
DrawnIds(cycle) == IF cycle # <<>> /\ cycle[1].pc = "store" THEN 1 ELSE 0

\* The k-th interval fires for its next period and its callback runs up to its
\* first await.  Intervals of one period length fire in turn.
IntervalFires(k, draw, maxTicks, maxCycles) ==
  /\ k \in 1..Len(intervals)
  /\ \A j \in 1..Len(intervals) : intervals[k] <= intervals[j]
  /\ intervals[k] < maxTicks
  /\ Len(cycles) < maxCycles
  /\ LET period == intervals[k] + 1
         time == Max2(now, period)
         fired == [interval |-> k, period |-> period, pc |-> "iter", di |-> 1, si |-> 0,
                   reading |-> NoReading, isAnomaly |-> FALSE]
         cycle == ForOf(fired, 1, draw, time)
     IN /\ intervals' = [intervals EXCEPT ![k] = period]
        /\ now' = time
        /\ cycles' = cycles \o cycle
        /\ nextId' = nextId + DrawnIds(cycle)
  /\ ret' = NoReturn
  /\ UNCHANGED <<devices, sensorReadings, eventHandlers, healthTimers, poll,
                 alerts, appended, verdicts, fwUpdates, produced, aiVars, svcVars, invoked, fwVars>>

\* the c-th callback resumes at the for-of step
CycleResume(c, draw) ==
  /\ c \in 1..Len(cycles)
  /\ cycles[c].pc = "iter"
  /\ LET cycle == ForOf(cycles[c], cycles[c].di, draw, now)
     IN /\ cycles' = ReplaceCycle(c, cycle)
        /\ nextId' = nextId + DrawnIds(cycle)
  /\ ret' = NoReturn
  /\ UNCHANGED <<devices, sensorReadings, eventHandlers, healthTimers, poll, now,
                 alerts, appended, verdicts, fwUpdates, produced, intervals, aiVars, svcVars, invoked, fwVars>>

\* the c-th callback resumes in the sensor loop and generates the next reading
CycleGenerate(c, draw) ==
  /\ c \in 1..Len(cycles)
  /\ cycles[c].pc = "generate"
  /\ LET device == devices[cycles[c].di]
         sensor == device.sensors[cycles[c].si]
     IN cycles' = ReplaceCycle(c, <<[cycles[c] EXCEPT !.pc = "store",
                     !.reading = generateSensorReading(sensor, device, draw, nextId, now)]>>)
  /\ nextId' = nextId + 1
  /\ ret' = NoReturn
  /\ UNCHANGED <<devices, sensorReadings, eventHandlers, healthTimers, poll, now,
                 alerts, appended, verdicts, fwUpdates, produced, intervals, aiVars, svcVars, invoked, fwVars>>

\* a store step that leaves the slot alone when it holds a reading generated later
CycleStoreNewest(c) ==
  /\ c \in 1..Len(cycles)
  /\ cycles[c].pc = "store"
  /\ LET device == devices[cycles[c].di]
         sensor == device.sensors[cycles[c].si]
         reading == cycles[c].reading
         deviceReadings == KeepLast(Append(sensorReadings[device.id], reading))
     IN /\ sensorReadings' = MapSet(sensorReadings, device.id, deviceReadings)
        /\ appended' = MapSet(appended, device.id, Append(appended[device.id], reading.id))
        /\ produced' = MapSet(produced, reading.id,
                              [sensor |-> sensor.id, interval |-> cycles[c].interval,
                               period |-> cycles[c].period])
        /\ devices' = IF sensor.lastReading.id > reading.id THEN devices
                      ELSE [devices EXCEPT
                              ![cycles[c].di].sensors[cycles[c].si].lastReading = reading]
        /\ \E isAnomaly \in detectAnomaly(deviceReadings, reading) :
             cycles' = ReplaceCycle(c, <<[cycles[c] EXCEPT !.pc = "process",
                                                           !.isAnomaly = isAnomaly]>>)
  /\ ret' = NoReturn
  /\ UNCHANGED <<eventHandlers, healthTimers, poll, now, nextId, alerts, verdicts,
                 fwUpdates, intervals, aiVars, svcVars, invoked, fwVars>>

\* the c-th callback resumes with its reading: push, evict, sensorReadings.set,
\* sensor.lastReading = reading, and processReading up to the await of detectAnomaly
CycleStore(c) ==
  /\ c \in 1..Len(cycles)
  /\ cycles[c].pc = "store"
  /\ LET device == devices[cycles[c].di]
         sensor == device.sensors[cycles[c].si]
         reading == cycles[c].reading
         stored == IF device.id \in DOMAIN sensorReadings
                   THEN sensorReadings[device.id] ELSE <<>>
         deviceReadings == KeepLast(Append(stored, reading))
     IN /\ sensorReadings' = MapSet(sensorReadings, device.id, deviceReadings)
        /\ appended' = MapSet(appended, device.id, Append(appended[device.id], reading.id))
        /\ produced' = MapSet(produced, reading.id,
                              [sensor |-> sensor.id, interval |-> cycles[c].interval,
                               period |-> cycles[c].period])
        /\ devices' = [devices EXCEPT
                         ![cycles[c].di].sensors[cycles[c].si].lastReading = reading]
        /\ \E isAnomaly \in detectAnomaly(deviceReadings, reading) :
             cycles' = ReplaceCycle(c, <<[cycles[c] EXCEPT !.pc = "process",
                                                           !.isAnomaly = isAnomaly]>>)
  /\ ret' = NoReturn
  /\ UNCHANGED <<eventHandlers, healthTimers, poll, now, nextId, alerts, verdicts,
                 fwUpdates, intervals, aiVars, svcVars, invoked, fwVars>>

\* a processReading after which the callback leaves the device, whatever sensors remain
CycleProcessFirstOnly(c) ==
  /\ c \in 1..Len(cycles)
  /\ cycles[c].pc = "process"
  /\ LET device == devices[cycles[c].di]
         sensor == device.sensors[cycles[c].si]
         reading == cycles[c].reading
         thresholdViolation == checkThresholds(sensor, reading)
     IN /\ alerts' = alerts \o AlertsFor(device, sensor, reading, cycles[c].isAnomaly,
                                         thresholdViolation, 0)
        /\ verdicts' = verdicts \cup
             {[type |-> sensor.type, value |-> reading.value, verdict |-> thresholdViolation]}
        /\ invoked' = invoked \o DispatchFor(eventHandlers, sensor, reading,
                                             cycles[c].isAnomaly, thresholdViolation)
        /\ cycles' = ReplaceCycle(c,
             <<[cycles[c] EXCEPT !.pc = "iter", !.di = cycles[c].di + 1, !.si = 0,
                                 !.reading = NoReading, !.isAnomaly = FALSE]>>)
  /\ ret' = NoReturn
  /\ UNCHANGED <<devices, sensorReadings, eventHandlers, healthTimers, poll, now, nextId,
                 appended, fwUpdates, produced, intervals, aiVars, svcVars, fwVars>>

\* the number of readings appended to the history before the reading with this id
PriorCount(deviceId, readingId) ==
  (CHOOSE i \in 1..Len(appended[deviceId]) : appended[deviceId][i] = readingId) - 1

\* the rest of processReading for the reading of the c-th callback: the anomaly
\* alert, checkThresholds and the threshold alert, the sensor event.  The
\* handlers of these events change nothing of the service.
CycleProcess(c) ==
  /\ c \in 1..Len(cycles)
  /\ cycles[c].pc = "process"
  /\ LET device == devices[cycles[c].di]
         sensor == device.sensors[cycles[c].si]
         reading == cycles[c].reading
         thresholdViolation == checkThresholds(sensor, reading)
     IN /\ alerts' = alerts \o AlertsFor(device, sensor, reading, cycles[c].isAnomaly,
                                         thresholdViolation,
                                         PriorCount(device.id, reading.id))
        /\ verdicts' = verdicts \cup
             {[type |-> sensor.type, value |-> reading.value, verdict |-> thresholdViolation]}
        /\ invoked' = invoked \o DispatchFor(eventHandlers, sensor, reading,
                                             cycles[c].isAnomaly, thresholdViolation)
        /\ cycles' = ReplaceCycle(c,
             <<IF cycles[c].si < Len(device.sensors)
               THEN [cycles[c] EXCEPT !.pc = "generate", !.si = cycles[c].si + 1,
                                      !.reading = NoReading, !.isAnomaly = FALSE]
               ELSE [cycles[c] EXCEPT !.pc = "iter", !.di = cycles[c].di + 1, !.si = 0,
                                      !.reading = NoReading, !.isAnomaly = FALSE]>>)
  /\ ret' = NoReturn
  /\ UNCHANGED <<devices, sensorReadings, eventHandlers, healthTimers, poll, now, nextId,
                 appended, fwUpdates, produced, intervals, aiVars, svcVars, fwVars>>

-----------------------------------------------------------------------------
(* The health-check interval of startDeviceMonitoring *)

\* a health check that drops the device from the registry when it is offline
CheckDeviceHealthRemoving(i, isOnline) ==
  /\ i \in 1..Len(healthTimers)
  /\ LET k == DeviceIndex(healthTimers[i])
     IN devices' = IF isOnline
                   THEN [devices EXCEPT ![k].status = "online",
                                        ![k].connectivity.lastSeen = now]
                   ELSE [j \in 1..(Len(devices) - 1) |->
                           IF j < k THEN devices[j] ELSE devices[j + 1]]
  /\ ret' = NoReturn
  /\ UNCHANGED <<sensorReadings, eventHandlers, healthTimers, poll, now, nextId,
                 alerts, appended, verdicts, fwUpdates>>
  /\ UNCHANGED <<produced, timerVars, aiVars, svcVars, invoked, fwVars>>

\* a health check that stamps lastSeen whatever the outcome
CheckDeviceHealthStamping(i, isOnline) ==
  /\ i \in 1..Len(healthTimers)
  /\ LET k == DeviceIndex(healthTimers[i])
     IN devices' = [devices EXCEPT
          ![k].status = IF isOnline THEN "online" ELSE "offline",
          ![k].connectivity.lastSeen = now]
  /\ ret' = NoReturn
  /\ UNCHANGED <<sensorReadings, eventHandlers, healthTimers, poll, now, nextId,
                 alerts, appended, verdicts, fwUpdates>>
  /\ UNCHANGED <<produced, timerVars, aiVars, svcVars, invoked, fwVars>>

\* checkDeviceHealth of the device the i-th timer holds; isOnline is the draw
CheckDeviceHealth(i, isOnline) ==
  /\ i \in 1..Len(healthTimers)
  /\ LET k == DeviceIndex(healthTimers[i])
     IN devices' = [devices EXCEPT
          ![k].status = IF isOnline THEN "online" ELSE "offline",
          ![k].connectivity.lastSeen = IF isOnline THEN now ELSE @]
  /\ ret' = NoReturn
  /\ UNCHANGED <<sensorReadings, eventHandlers, healthTimers, poll, now, nextId,
                 alerts, appended, verdicts, fwUpdates>>
  /\ UNCHANGED <<produced, timerVars, aiVars, svcVars, invoked, fwVars>>

-----------------------------------------------------------------------------
(* Security scan, firmware update, edge functions, predictive maintenance *)

\* the ids a caller passes: those of the registered devices, and 0, which no
\* device carries (UUIDs are drawn from 1 on)
CallIds == DeviceIds \cup {0}

\* throw new Error('Device not found') out of `call`
DeviceNotFound(call) == [op |-> "error", call |-> call, message |-> "Device not found"]

\* scanForVulnerabilities; found is the draw Math.random() > 0.8
scanForVulnerabilities(found) ==
  IF found
  THEN <<[severity |-> "medium", description |-> "Outdated firmware version",
          mitigation |-> "Update to latest firmware version"]>>
  ELSE <<>>

Penalty(severity) ==
  CASE severity = "low" -> 5 [] severity = "medium" -> 15
    [] severity = "high" -> 30 [] severity = "critical" -> 50 [] OTHER -> 0

RECURSIVE SumPenalties(_)
SumPenalties(vulnerabilities) ==
  IF vulnerabilities = <<>> THEN 0
  ELSE Penalty(vulnerabilities[1].severity) + SumPenalties(Tail(vulnerabilities))

calculateSecurityScore(vulnerabilities) == Max2(0, 100 - SumPenalties(vulnerabilities))

generateSecurityRecommendations(vulnerabilities) ==
  <<"Enable automatic security updates">> \o
  (IF \E i \in 1..Len(vulnerabilities) : vulnerabilities[i].severity = "critical"
   THEN <<"Isolate device until critical vulnerabilities are patched">>
   ELSE <<>>)

PerformSecurityScan(deviceId, found) ==
  /\ IF deviceId \notin DeviceIds
     THEN /\ ret' = DeviceNotFound("performSecurityScan")
          /\ UNCHANGED devices
     ELSE LET vulnerabilities == scanForVulnerabilities(found)
          IN /\ devices' = [devices EXCEPT
                  ![DeviceIndex(deviceId)].security.lastSecurityScan = now,
                  ![DeviceIndex(deviceId)].security.vulnerabilities = vulnerabilities]
             /\ ret' = [op |-> "performSecurityScan",
                        vulnerabilities |-> vulnerabilities,
                        score |-> calculateSecurityScore(vulnerabilities),
                        recommendations |-> generateSecurityRecommendations(vulnerabilities)]
  /\ UNCHANGED <<sensorReadings, eventHandlers, healthTimers, poll, now, nextId,
                 alerts, appended, verdicts, fwUpdates>>
  /\ UNCHANGED <<produced, timerVars, aiVars, svcVars, invoked, fwVars>>

\* getLatestFirmwareVersion
LatestFirmwareVersion == "2.1.0"

\* version argument of updateDeviceFirmware; "" stands for an omitted one
Versions == {"", "3.0.0"}

\* an updateDeviceFirmware that always installs the latest version
UpdateDeviceFirmwareLatest(deviceId, version, maxUpdates) ==
  /\ IF deviceId \notin DeviceIds
     THEN /\ ret' = DeviceNotFound("updateDeviceFirmware")
          /\ UNCHANGED fwUpdates
     ELSE /\ Len(fwUpdates) < maxUpdates
          /\ fwUpdates' = Append(fwUpdates,
               [deviceId |-> deviceId, targetVersion |-> LatestFirmwareVersion])
          /\ ret' = NoReturn
  /\ UNCHANGED <<devices, sensorReadings, eventHandlers, healthTimers, poll, now,
                 nextId, alerts, appended, verdicts>>
  /\ UNCHANGED <<produced, timerVars, aiVars, svcVars, invoked, fwVars>>

\* updateDeviceFirmware up to the await of the 2-second update timer
UpdateDeviceFirmware(deviceId, version, maxUpdates) ==
  /\ IF deviceId \notin DeviceIds
     THEN /\ ret' = DeviceNotFound("updateDeviceFirmware")
          /\ UNCHANGED fwUpdates
     ELSE /\ Len(fwUpdates) < maxUpdates
          /\ fwUpdates' = Append(fwUpdates,
               [deviceId |-> deviceId,
                targetVersion |-> IF version # "" THEN version ELSE LatestFirmwareVersion])
          /\ ret' = NoReturn
  /\ UNCHANGED <<devices, sensorReadings, eventHandlers, healthTimers, poll, now,
                 nextId, alerts, appended, verdicts>>
  /\ UNCHANGED <<produced, timerVars, aiVars, svcVars, invoked, fwVars>>

\* a firmware update that also re-creates the sensors' lastReading slots
FirmwareUpdatedResetting(i) ==
  /\ i \in 1..Len(fwUpdates)
  /\ LET call == fwUpdates[i]
         k == DeviceIndex(call.deviceId)
         Reset(sensor) == [sensor EXCEPT !.lastReading.value = 0]
     IN devices' = [devices EXCEPT ![k].firmware.version = call.targetVersion,
                                   ![k].firmware.lastUpdate = now,
                                   ![k].firmware.updateAvailable = FALSE,
                                   ![k].sensors = [j \in 1..Len(@) |-> Reset(@[j])]]
  /\ fwUpdates' = [j \in 1..(Len(fwUpdates) - 1) |->
                     IF j < i THEN fwUpdates[j] ELSE fwUpdates[j + 1]]
  /\ ret' = [op |-> "updateDeviceFirmware", deviceId |-> fwUpdates[i].deviceId]
  /\ UNCHANGED <<sensorReadings, eventHandlers, healthTimers, poll, now, nextId,
                 alerts, appended, verdicts>>
  /\ UNCHANGED <<produced, timerVars, aiVars, svcVars, invoked, fwVars>>

\* the update timer of the i-th waiting call fires: the call writes the firmware fields
FirmwareUpdated(i) ==
  /\ i \in 1..Len(fwUpdates)
  /\ LET call == fwUpdates[i]
         k == DeviceIndex(call.deviceId)
     IN devices' = [devices EXCEPT ![k].firmware.version = call.targetVersion,
                                   ![k].firmware.lastUpdate = now,
                                   ![k].firmware.updateAvailable = FALSE]
  /\ fwUpdates' = [j \in 1..(Len(fwUpdates) - 1) |->
                     IF j < i THEN fwUpdates[j] ELSE fwUpdates[j + 1]]
  /\ ret' = [op |-> "updateDeviceFirmware", deviceId |-> fwUpdates[i].deviceId]
  /\ UNCHANGED <<sensorReadings, eventHandlers, healthTimers, poll, now, nextId,
                 alerts, appended, verdicts>>
  /\ UNCHANGED <<produced, timerVars, aiVars, svcVars, invoked, fwVars>>

-----------------------------------------------------------------------------
(* updateDeviceFirmware at the grain of its awaits.  A call that is given a    *)
(* version does not evaluate the await of version || await ...: it reaches     *)
(* performFirmwareUpdate and creates its 2-second timer within the call.  A    *)
(* call without a version is suspended at await getLatestFirmwareVersion and   *)
(* creates its timer when the microtask queue resumes it; code that runs in    *)
(* the same turn, another call included, runs before that.  The timers have    *)
(* the same delay and fire in the order of their creation, which is the order  *)
(* of fwUpdates; no timer fires while a microtask is queued.                   *)

\* the call up to its first suspension
StartFirmwareUpdate(deviceId, version, maxUpdates) ==
  /\ IF deviceId \notin DeviceIds
     THEN /\ ret' = DeviceNotFound("updateDeviceFirmware")
          /\ UNCHANGED <<fwUpdates, fwLatest, fwStarted>>
     ELSE /\ Len(fwStarted) < maxUpdates
          /\ fwStarted' = Append(fwStarted,
               [deviceId |-> deviceId,
                targetVersion |-> IF version # "" THEN version ELSE LatestFirmwareVersion])
          /\ IF version # ""
             THEN /\ fwUpdates' = Append(fwUpdates,
                       [deviceId |-> deviceId, targetVersion |-> version])
                  /\ UNCHANGED fwLatest
             ELSE /\ fwLatest' = Append(fwLatest, deviceId)
                  /\ UNCHANGED fwUpdates
          /\ ret' = NoReturn
  /\ UNCHANGED <<devices, sensorReadings, eventHandlers, healthTimers, poll, now,
                 nextId, alerts, appended, verdicts>>
  /\ UNCHANGED <<produced, timerVars, aiVars, svcVars, invoked>>

\* the oldest call suspended at getLatestFirmwareVersion resumes and creates its timer
LatestVersionResolved ==
  /\ fwLatest # <<>>
  /\ fwUpdates' = Append(fwUpdates,
       [deviceId |-> fwLatest[1], targetVersion |-> LatestFirmwareVersion])
  /\ fwLatest' = Tail(fwLatest)
  /\ ret' = NoReturn
  /\ UNCHANGED <<devices, sensorReadings, eventHandlers, healthTimers, poll, now,
                 nextId, alerts, appended, verdicts, fwStarted>>
  /\ UNCHANGED <<produced, timerVars, aiVars, svcVars, invoked>>

\* the earliest update timer fires
UpdateTimerFires ==
  /\ fwLatest = <<>>
  /\ FirmwareUpdated(1)

\* addEventListener: the handler is pushed on the list of its event type
addEventListener(handlers, eventType, handler) ==
  MapSet(handlers, eventType,
         Append(IF eventType \in DOMAIN handlers THEN handlers[eventType] ELSE <<>>, handler))

RECURSIVE AddListeners(_, _, _)
AddListeners(handlers, triggers, handler) ==
  IF triggers = <<>> THEN handlers
  ELSE AddListeners(addEventListener(handlers, triggers[1], handler), Tail(triggers), handler)

RECURSIVE CountHandlers(_, _)
CountHandlers(handlers, types) ==
  IF types = {} THEN 0
  ELSE LET t == CHOOSE x \in types : TRUE
       IN Len(handlers[t]) + CountHandlers(handlers, types \ {t})

\* the handlers a caller passes to the public addEventListener: one that
\* returns and one that throws or rejects
CallerHandlers == { [kind |-> k, deviceId |-> 0] : k \in {"returns", "throws"} }

\* the event types of processReading for the sensors of the model
EventTypes == {"alert:threshold", "sensor:humidity"}

\* addEventListener called from outside the service
AddEventListener(eventType, handler, maxHandlers) ==
  /\ CountHandlers(eventHandlers, DOMAIN eventHandlers) < maxHandlers
  /\ eventHandlers' = addEventListener(eventHandlers, eventType, handler)
  /\ ret' = [op |-> "addEventListener", eventType |-> eventType]
  /\ UNCHANGED <<devices, sensorReadings, healthTimers, poll, now, nextId,
                 alerts, appended, verdicts, fwUpdates>>
  /\ UNCHANGED <<produced, timerVars, aiVars, svcVars, invoked, fwVars>>

TriggerLists == { <<"alert:threshold">>, <<"alert:anomaly", "sensor:humidity">> }

\* a deployEdgeFunction that registers its triggers before it looks the device up
DeployEdgeFunctionUnchecked(deviceId, triggers, maxHandlers) ==
  /\ CountHandlers(eventHandlers, DOMAIN eventHandlers) + Len(triggers) <= maxHandlers
  /\ eventHandlers' = AddListeners(eventHandlers, triggers,
                                   [kind |-> "edge", deviceId |-> deviceId])
  /\ ret' = IF deviceId \notin DeviceIds THEN DeviceNotFound("deployEdgeFunction")
            ELSE [op |-> "deployEdgeFunction", deviceId |-> deviceId]
  /\ UNCHANGED <<devices, sensorReadings, healthTimers, poll, now, nextId,
                 alerts, appended, verdicts, fwUpdates>>
  /\ UNCHANGED <<produced, timerVars, aiVars, svcVars, invoked, fwVars>>

\* deployEdgeFunction: one handler running executeEdgeFunction per trigger
DeployEdgeFunction(deviceId, triggers, maxHandlers) ==
  /\ IF deviceId \notin DeviceIds
     THEN /\ ret' = DeviceNotFound("deployEdgeFunction")
          /\ UNCHANGED eventHandlers
     ELSE /\ CountHandlers(eventHandlers, DOMAIN eventHandlers) + Len(triggers) <= maxHandlers
          /\ eventHandlers' = AddListeners(eventHandlers, triggers,
                                [kind |-> "edge", deviceId |-> deviceId])
          /\ ret' = [op |-> "deployEdgeFunction", deviceId |-> deviceId]
  /\ UNCHANGED <<devices, sensorReadings, healthTimers, poll, now, nextId,
                 alerts, appended, verdicts, fwUpdates>>
  /\ UNCHANGED <<produced, timerVars, aiVars, svcVars, invoked, fwVars>>

\* calculateDeviceHealth, in thousandths; 0 / 0 for a device without sensors is NaN
\* and Math.max(0, NaN) is NaN: the result is then [nan |-> TRUE].  Five minutes
\* are 60 poll ticks.
calculateDeviceHealth(device) ==
  LET stale == IF now - device.connectivity.lastSeen > 60 THEN 200 ELSE 0
      failingSensors == Cardinality({i \in 1..Len(device.sensors) :
                                       device.sensors[i].lastReading.quality = "poor"})
      criticalVulns == Cardinality({i \in 1..Len(device.security.vulnerabilities) :
                                      device.security.vulnerabilities[i].severity = "critical"})
  IN IF Len(device.sensors) = 0 THEN [nan |-> TRUE, score |-> 0]
     ELSE [nan |-> FALSE,
           score |-> Max2(0, 1000 - stale - (failingSensors * 300) \div Len(device.sensors)
                                  - criticalVulns * 100)]

\* estimateTimeToFailure, in thousandths of an hour
estimateTimeToFailure(healthScore) == Max2(1000, healthScore * 720)

getMaintenanceRecommendation(healthScore) ==
  IF healthScore < 300 THEN "Immediate replacement required"
  ELSE IF healthScore < 500 THEN "Schedule maintenance within 24 hours"
  ELSE IF healthScore < 700 THEN "Schedule maintenance within 1 week"
  ELSE "Monitor closely"

\* the prediction pushed for a device; NaN < 0.8 is false
Reported(device) ==
  ~calculateDeviceHealth(device).nan /\ calculateDeviceHealth(device).score < 800

predictMaintenanceNeeds ==
  LET Prediction(device) ==
        [deviceId |-> device.id, component |-> "sensor-array",
         probability |-> 1000 - calculateDeviceHealth(device).score,
         timeToFailure |-> estimateTimeToFailure(calculateDeviceHealth(device).score),
         recommendedAction |->
           getMaintenanceRecommendation(calculateDeviceHealth(device).score)]
      reported == SelectSeq(devices, Reported)
  IN [i \in 1..Len(reported) |-> Prediction(reported[i])]

PredictMaintenanceNeeds ==
  /\ ret' = [op |-> "predictMaintenanceNeeds", predictions |-> predictMaintenanceNeeds]
  /\ UNCHANGED <<devices, sensorReadings, eventHandlers, healthTimers, poll, now,
                 nextId, alerts, appended, verdicts, fwUpdates>>
  /\ UNCHANGED <<produced, timerVars, aiVars, svcVars, invoked, fwVars>>

-----------------------------------------------------------------------------
(* AIService (src/unnamed/part_000): assistants, predictive models, chat.     *)
(* Accuracy and confidence are in units of 0.01.                             *)

\* everything of the IoT service but the UUID source and the returned value
iotVars == <<devices, sensorReadings, eventHandlers, healthTimers, poll, now, alerts,
             appended, verdicts, fwUpdates, produced, intervals, cycles, invoked,
             fwLatest, fwStarted>>

\* the AIConfig values that matter to the constructor
AIConfigs ==
  { [enabled |-> e, predictiveAnalytics |-> f] : e \in BOOLEAN, f \in BOOLEAN }

\* createAssistant({name: ...}): config.name || 'AI Assistant'; "" is an omitted name
NewAssistant(name, id) ==
  [id |-> id, name |-> IF name # "" THEN name ELSE "AI Assistant"]

\* createPredictiveModel: accuracy 0, no predictions
NewModel(type, features, id) ==
  [id |-> id, type |-> type, accuracy |-> 0, lastTrained |-> now,
   features |-> features, predictions |-> <<>>]

\* The state after new AIService(config): initializeAI returns at once when AI
\* is disabled; otherwise loadAssistants creates the default assistant and
\* loadModels creates a model when predictiveAnalytics is on.
InitAI ==
  /\ devices = <<>>
  /\ sensorReadings = <<>>
  /\ eventHandlers = <<>>
  /\ healthTimers = <<>>
  /\ poll = Idle
  /\ now = 0
  /\ alerts = <<>>
  /\ appended = <<>>
  /\ verdicts = {}
  /\ fwUpdates = <<>>
  /\ ret = NoReturn
  /\ produced = <<>>
  /\ intervals = <<0>>
  /\ cycles = <<>>
  /\ providerCalls = <<>>
  /\ InitSvc
  /\ invoked = <<>>
  /\ fwLatest = <<>>
  /\ fwStarted = <<>>
  /\ \E config \in AIConfigs :
       /\ assistants = IF config.enabled
                       THEN <<NewAssistant("Municipal Assistant", 1)>> ELSE <<>>
       /\ models = IF config.enabled /\ config.predictiveAnalytics
                   THEN <<NewModel("classification",
                                   <<"time", "location", "weather", "event_type">>, 2)>>
                   ELSE <<>>
       /\ nextId = IF ~config.enabled THEN 1
                   ELSE IF config.predictiveAnalytics THEN 3 ELSE 2

AssistantIds == {assistants[i].id : i \in 1..Len(assistants)}

ModelIds == {models[i].id : i \in 1..Len(models)}

\* the ids a caller passes: those of the assistants and models, and 0, which
\* nothing carries
AICallIds == AssistantIds \cup ModelIds \cup {0}

\* Map.get(id) on the model map, as the place of the model
ModelIndex(id) == CHOOSE i \in 1..Len(models) : models[i].id = id

\* throw new Error(message) out of `call`
Thrown(call, message) == [op |-> "error", call |-> call, message |-> message]

CreateAssistant(name, maxAssistants) ==
  /\ Len(assistants) < maxAssistants
  /\ assistants' = Append(assistants, NewAssistant(name, nextId))
  /\ nextId' = nextId + 1
  /\ ret' = [op |-> "createAssistant", assistant |-> NewAssistant(name, nextId)]
  /\ UNCHANGED <<models, providerCalls, iotVars, svcVars>>

\* a chat that calls the provider before it looks the assistant up
ChatCallingFirst(assistantId, ok, maxProviderCalls) ==
  /\ Len(providerCalls) < maxProviderCalls
  /\ providerCalls' = Append(providerCalls, "chat")
  /\ ret' = IF assistantId \notin AssistantIds THEN Thrown("chat", "Assistant not found")
            ELSE IF ok THEN [op |-> "chat", assistantId |-> assistantId]
            ELSE Thrown("chat", "AI Provider error")
  /\ UNCHANGED <<assistants, models, nextId, iotVars, svcVars>>

\* chat, the fetch of callAIProvider included; ok is whether the provider answers
\* with response.ok (its statusText is not modelled)
Chat(assistantId, ok, maxProviderCalls) ==
  /\ IF assistantId \notin AssistantIds
     THEN /\ ret' = Thrown("chat", "Assistant not found")
          /\ UNCHANGED providerCalls
     ELSE /\ Len(providerCalls) < maxProviderCalls
          /\ providerCalls' = Append(providerCalls, "chat")
          /\ ret' = IF ok THEN [op |-> "chat", assistantId |-> assistantId]
                    ELSE Thrown("chat", "AI Provider error")
  /\ UNCHANGED <<assistants, models, nextId, iotVars, svcVars>>

ModelTypes == {"classification", "anomaly"}

CreatePredictiveModel(type, maxModels) ==
  /\ Len(models) < maxModels
  /\ models' = Append(models, NewModel(type, <<"time">>, nextId))
  /\ nextId' = nextId + 1
  /\ ret' = [op |-> "createPredictiveModel", model |-> NewModel(type, <<"time">>, nextId)]
  /\ UNCHANGED <<assistants, providerCalls, iotVars, svcVars>>

\* the accuracy executeTraining draws: Math.random() * 0.3 + 0.7
Accuracies == {70, 95}

\* trainModel; dataOk is whether every item of trainingData can be indexed
\* (preprocessData reads item[feature.name], a TypeError for null or undefined)
TrainModel(modelId, dataOk, accuracy) ==
  /\ IF modelId \notin ModelIds
     THEN /\ ret' = Thrown("trainModel", "Model not found")
          /\ UNCHANGED models
     ELSE IF ~dataOk /\ models[ModelIndex(modelId)].features # <<>>
     THEN /\ ret' = Thrown("trainModel", "TypeError")
          /\ UNCHANGED models
     ELSE /\ models' = [models EXCEPT ![ModelIndex(modelId)].accuracy = accuracy,
                                      ![ModelIndex(modelId)].lastTrained = now]
          /\ ret' = [op |-> "trainModel", modelId |-> modelId]
  /\ UNCHANGED <<assistants, providerCalls, nextId, iotVars, svcVars>>

\* predict; confidence is the draw of executePrediction
Predict(modelId, dataOk, confidence, maxPredictions) ==
  /\ IF modelId \notin ModelIds
     THEN /\ ret' = Thrown("predict", "Model not found")
          /\ UNCHANGED <<models, nextId>>
     ELSE IF ~dataOk /\ models[ModelIndex(modelId)].features # <<>>
     THEN /\ ret' = Thrown("predict", "TypeError")
          /\ UNCHANGED <<models, nextId>>
     ELSE /\ Len(models[ModelIndex(modelId)].predictions) < maxPredictions
          /\ models' = [models EXCEPT ![ModelIndex(modelId)].predictions =
               Append(@, [id |-> nextId, confidence |-> confidence, timestamp |-> now])]
          /\ nextId' = nextId + 1
          /\ ret' = [op |-> "predict", modelId |-> modelId, confidence |-> confidence]
  /\ UNCHANGED <<assistants, providerCalls, iotVars, svcVars>>

-----------------------------------------------------------------------------
(* EnterpriseIntegrationService (src/src/services/enterpriseIntegrationService.ts). *)
(* An integration is kept with the fields the security and performance           *)
(* operations read and write: config.encryption, config.audit and cache.          *)

\* config.encryption and config.audit before they are set
NoEncryption == [enabled |-> FALSE, algorithm |-> "none", keyRotationDays |-> 0,
                 fieldLevelEncryption |-> FALSE, encryptedFields |-> <<>>]

NoAudit == [enabled |-> FALSE, logLevel |-> "none", retention |-> 0,
            realTimeAlerts |-> FALSE, complianceStandards |-> <<>>]

\* the systems integrateWith... connects, with the cache each literal declares
IntegrationKinds == {"SAP", "Salesforce", "RabbitMQ"}

NewIntegration(kind, id) ==
  [id |-> id,
   name |-> kind,
   type |-> IF kind = "RabbitMQ" THEN "message-queue" ELSE "api",
   config |-> [encryption |-> NoEncryption, audit |-> NoAudit],
   cache |-> CASE kind = "SAP" -> [enabled |-> TRUE, ttl |-> 300000]
               [] kind = "Salesforce" -> [enabled |-> TRUE, ttl |-> 600000]
               [] kind = "RabbitMQ" -> [enabled |-> FALSE, ttl |-> 0]]

IntegrationIds == {integrations[i].id : i \in 1..Len(integrations)}

\* the ids a caller passes: those of the stored integrations, and 0, which
\* no integration carries
IntegrationCallIds == IntegrationIds \cup {0}

\* Map.get(id) on the integration map, as the place of the integration
IntegrationIndex(id) == CHOOSE i \in 1..Len(integrations) : integrations[i].id = id

\* throw new Error('Integration not found') out of `call` made with `ids`
IntegrationNotFound(call, ids) ==
  [op |-> "error", call |-> call, ids |-> ids, message |-> "Integration not found"]

\* integrateWithSAP, integrateWithSalesforce, integrateWithRabbitMQ
IntegrateWith(kind, maxIntegrations) ==
  /\ Len(integrations) < maxIntegrations
  /\ integrations' = Append(integrations, NewIntegration(kind, nextId))
  /\ nextId' = nextId + 1
  /\ ret' = [op |-> "integrateWith", integration |-> NewIntegration(kind, nextId)]
  /\ UNCHANGED <<contracts, records, recordCalls, clock, iotVars, aiVars>>

\* the config arguments of enableDataEncryption and enableAuditLogging; an
\* omitted encryptedFields becomes []
EncryptionConfigs ==
  { [algorithm |-> a, keyRotationDays |-> 90, fieldLevelEncryption |-> TRUE,
     encryptedFields |-> <<>>] : a \in {"AES-256-GCM", "ChaCha20-Poly1305"} }

AuditConfigs ==
  { [logLevel |-> "standard", retention |-> 365, realTimeAlerts |-> TRUE,
     complianceStandards |-> <<"SOC2">>] }

EnableDataEncryption(integrationId, config) ==
  /\ IF integrationId \notin IntegrationIds
     THEN /\ ret' = IntegrationNotFound("enableDataEncryption", <<integrationId>>)
          /\ UNCHANGED integrations
     ELSE /\ integrations' = [integrations EXCEPT
               ![IntegrationIndex(integrationId)].config.encryption =
                 [enabled |-> TRUE, algorithm |-> config.algorithm,
                  keyRotationDays |-> config.keyRotationDays,
                  fieldLevelEncryption |-> config.fieldLevelEncryption,
                  encryptedFields |-> config.encryptedFields]]
          /\ ret' = [op |-> "enableDataEncryption", ids |-> <<integrationId>>]
  /\ UNCHANGED <<nextId, contracts, records, recordCalls, clock, iotVars, aiVars>>

EnableAuditLogging(integrationId, config) ==
  /\ IF integrationId \notin IntegrationIds
     THEN /\ ret' = IntegrationNotFound("enableAuditLogging", <<integrationId>>)
          /\ UNCHANGED integrations
     ELSE /\ integrations' = [integrations EXCEPT
               ![IntegrationIndex(integrationId)].config.audit =
                 [enabled |-> TRUE, logLevel |-> config.logLevel,
                  retention |-> config.retention,
                  realTimeAlerts |-> config.realTimeAlerts,
                  complianceStandards |-> config.complianceStandards]]
          /\ ret' = [op |-> "enableAuditLogging", ids |-> <<integrationId>>]
  /\ UNCHANGED <<nextId, contracts, records, recordCalls, clock, iotVars, aiVars>>

\* generatePerformanceRecommendations; slow is metrics.responseTime > 500,
\* faulty is metrics.errorRate > 0.02
generatePerformanceRecommendations(slow, faulty) ==
  (IF slow THEN <<[description |-> "Enable response caching", impact |-> 30]>> ELSE <<>>)
  \o (IF faulty THEN <<[description |-> "Implement circuit breaker pattern", impact |-> 25]>>
      ELSE <<>>)

\* optimizeIntegrationPerformance: applyOptimizations turns the cache on for
\* the caching recommendation, the only one whose description includes 'caching'
OptimizeIntegrationPerformance(integrationId, slow, faulty) ==
  /\ IF integrationId \notin IntegrationIds
     THEN /\ ret' = IntegrationNotFound("optimizeIntegrationPerformance", <<integrationId>>)
          /\ UNCHANGED integrations
     ELSE /\ integrations' =
               IF slow
               THEN [integrations EXCEPT
                       ![IntegrationIndex(integrationId)].cache = [enabled |-> TRUE, ttl |-> 300000]]
               ELSE integrations
          /\ ret' = [op |-> "optimizeIntegrationPerformance", ids |-> <<integrationId>>,
                     estimatedImprovement |->
                       (IF slow THEN 30 ELSE 0) + (IF faulty THEN 25 ELSE 0),
                     recommendations |-> Len(generatePerformanceRecommendations(slow, faulty))]
  /\ UNCHANGED <<nextId, contracts, records, recordCalls, clock, iotVars, aiVars>>

\* a failover setup that looks up the primary only
SetupFailoverPrimaryOnly(primaryIntegrationId, secondaryIntegrationId) ==
  /\ ret' = IF primaryIntegrationId \notin IntegrationIds
            THEN IntegrationNotFound("setupFailover",
                                     <<primaryIntegrationId, secondaryIntegrationId>>)
            ELSE [op |-> "setupFailover",
                  ids |-> <<primaryIntegrationId, secondaryIntegrationId>>]
  /\ UNCHANGED <<integrations, nextId, contracts, records, recordCalls, clock, iotVars, aiVars>>

\* setupFailover: both lookups, then startFailoverMonitoring, which stores nothing
SetupFailover(primaryIntegrationId, secondaryIntegrationId) ==
  /\ ret' = IF \/ primaryIntegrationId \notin IntegrationIds
               \/ secondaryIntegrationId \notin IntegrationIds
            THEN IntegrationNotFound("setupFailover",
                                     <<primaryIntegrationId, secondaryIntegrationId>>)
            ELSE [op |-> "setupFailover",
                  ids |-> <<primaryIntegrationId, secondaryIntegrationId>>]
  /\ UNCHANGED <<integrations, nextId, contracts, records, recordCalls, clock, iotVars, aiVars>>

-----------------------------------------------------------------------------
(* BlockchainService (src/src/services/blockchainService.ts).  A hash is the  *)
(* SHA-256 of the JSON text of the data; here the data are numbers from 1 on  *)
(* and the hash of a datum is the datum itself, so that equal data have equal *)
(* hashes and different data different ones; 0 stands for '0'.repeat(64).     *)
(* Strings that the code searches are sequences of characters.                *)

\* '0'.repeat(64)
GenesisHash == 0

\* the data passed to createVerifiableRecord
RecordData == {1, 2}

\* calculateHash
calculateHash(data) == data

\* getLastRecordHash: the values of the map in insertion order, sorted by
\* timestamp, newest first; Array.prototype.sort is stable, so of the records
\* that share the newest timestamp the first inserted comes first
getLastRecordHash(stored) ==
  IF stored = <<>> THEN GenesisHash
  ELSE LET newest == {i \in 1..Len(stored) :
                        \A j \in 1..Len(stored) : stored[j].timestamp <= stored[i].timestamp}
           first == CHOOSE i \in newest : \A j \in newest : i <= j
       IN stored[first].hash

\* createVerifiableRecord up to await calculateHash(data): the UUID is drawn,
\* the digest is pending
CreateVerifiableRecord(data, maxRecords) ==
  /\ Len(records) + Len(recordCalls) < maxRecords
  /\ recordCalls' = Append(recordCalls,
       [pc |-> "hash", id |-> nextId, data |-> data,
        previousHash |-> GenesisHash, timestamp |-> 0])
  /\ nextId' = nextId + 1
  /\ ret' = NoReturn
  /\ UNCHANGED <<integrations, contracts, records, clock, iotVars, aiVars>>

\* the digest is there: getLastRecordHash reads the stored records, new Date()
\* is taken, and the call waits for the digest of signRecord
RecordHashed(c) ==
  /\ c \in 1..Len(recordCalls)
  /\ recordCalls[c].pc = "hash"
  /\ recordCalls' = [recordCalls EXCEPT ![c].pc = "sign",
                                        ![c].previousHash = getLastRecordHash(records),
                                        ![c].timestamp = clock]
  /\ ret' = NoReturn
  /\ UNCHANGED <<integrations, contracts, records, clock, nextId, iotVars, aiVars>>

\* the signature is there: submitToBlockchain, verified = true, records.set
RecordStored(c) ==
  /\ c \in 1..Len(recordCalls)
  /\ recordCalls[c].pc = "sign"
  /\ LET record == [id |-> recordCalls[c].id,
                    hash |-> calculateHash(recordCalls[c].data),
                    previousHash |-> recordCalls[c].previousHash,
                    timestamp |-> recordCalls[c].timestamp,
                    verified |-> TRUE]
     IN /\ records' = Append(records, record)
        /\ ret' = [op |-> "createVerifiableRecord", record |-> record]
  /\ recordCalls' = [j \in 1..(Len(recordCalls) - 1) |->
                       IF j < c THEN recordCalls[j] ELSE recordCalls[j + 1]]
  /\ UNCHANGED <<integrations, contracts, clock, nextId, iotVars, aiVars>>

\* a millisecond passes
ClockTick(maxClock) ==
  /\ clock < maxClock
  /\ clock' = clock + 1
  /\ ret' = NoReturn
  /\ UNCHANGED <<integrations, contracts, records, recordCalls, nextId, iotVars, aiVars>>

\* values of crypto.randomUUID(): 36 characters, hexadecimal digits and hyphens
Uuids ==
  { <<"c", "1", "7", "a", "7", "1", "0", "4", "-", "0", "0", "0", "0", "-", "4", "a", "c", "e", "-", "8", "b", "a", "d", "-", "0", "1", "2", "3", "4", "5", "6", "7", "8", "9", "a", "b">>,
    <<"9", "a", "7", "3", "e", "4", "7", "0", "-", "f", "e", "e", "d", "-", "4", "d", "a", "d", "-", "b", "0", "a", "7", "-", "c", "1", "7", "a", "7", "1", "0", "4", "0", "0", "0", "0">> }

\* the contract types, spelled out
Spelled(type) ==
  CASE type = "citation" -> <<"c", "i", "t", "a", "t", "i", "o", "n">>
    [] type = "payment" -> <<"p", "a", "y", "m", "e", "n", "t">>
    [] type = "permit" -> <<"p", "e", "r", "m", "i", "t">>
    [] type = "audit" -> <<"a", "u", "d", "i", "t">>

\* String.prototype.includes
Includes(text, word) ==
  \E k \in 0..(Len(text) - Len(word)) : SubSeq(text, k + 1, k + Len(word)) = word

ContractTypes == {"citation", "payment", "permit", "audit"}

\* deployMunicipalContract: the contract is stored under a fresh UUID, which is
\* its id; deployedAs is a history field, the type the contract was deployed for
DeployMunicipalContract(type, uuid, maxContracts) ==
  /\ Len(contracts) < maxContracts
  /\ \A i \in 1..Len(contracts) : contracts[i].id # uuid
  /\ contracts' = Append(contracts, [id |-> uuid, network |-> "ethereum", deployedAs |-> type])
  /\ ret' = [op |-> "deployMunicipalContract", type |-> type, id |-> uuid]
  /\ UNCHANGED <<integrations, records, recordCalls, clock, nextId, iotVars, aiVars>>

\* getContractByType: the contracts whose id includes the type name
getContractByType(type) ==
  {i \in 1..Len(contracts) : Includes(contracts[i].id, Spelled(type))}

\* executeCitationContract and executePaymentContract: the transaction id of
\* callContractFunction, or the error of getContractByType
ExecuteContract(call, type) ==
  /\ IF getContractByType(type) = {}
     THEN /\ ret' = Thrown(call, "Contract of type " \o type \o " not found")
          /\ UNCHANGED nextId
     ELSE /\ ret' = [op |-> call, transaction |-> nextId]
          /\ nextId' = nextId + 1
  /\ UNCHANGED <<integrations, contracts, records, recordCalls, clock, iotVars, aiVars>>

ExecuteCitationContract == ExecuteContract("executeCitationContract", "citation")

ExecutePaymentContract == ExecuteContract("executePaymentContract", "payment")

-----------------------------------------------------------------------------
(* Specifications *)

\* every operation of the service, on a registry of at most OpsDevices devices
Next ==
  \/ \E deviceConfig \in DeviceConfigs : RegisterDevice(deviceConfig, OpsDevices)
  \/ \E filters \in Filters : GetDevices(filters)
  \/ PollTick(OpsTicks)
  \/ PollDevice
  \/ \E draw \in Draws : CollectSensor(draw)
  \/ \E i \in 1..Len(healthTimers), isOnline \in BOOLEAN : CheckDeviceHealth(i, isOnline)
  \/ \E deviceId \in CallIds, found \in BOOLEAN :
       PerformSecurityScan(deviceId, found)
  \/ \E deviceId \in CallIds, version \in Versions :
       UpdateDeviceFirmware(deviceId, version, MaxUpdates)
  \/ \E i \in 1..Len(fwUpdates) : FirmwareUpdated(i)
  \/ \E deviceId \in CallIds, triggers \in TriggerLists :
       DeployEdgeFunction(deviceId, triggers, MaxHandlers)
  \/ PredictMaintenanceNeeds

Spec == Init /\ [][Next]_vars

\* registration, lookup and health checks, with no telemetry running
NextLookup ==
  \/ \E deviceConfig \in DeviceConfigs : RegisterDevice(deviceConfig, MaxDevices)
  \/ \E filters \in Filters : GetDevices(filters)
  \/ \E i \in 1..Len(healthTimers), isOnline \in BOOLEAN : CheckDeviceHealth(i, isOnline)

SpecLookup == Init /\ [][NextLookup]_vars

\* registration, lookup, telemetry and health checks on a registry of several devices
NextRegistry ==
  \/ \E deviceConfig \in DeviceConfigs : RegisterDevice(deviceConfig, MaxDevices)
  \/ \E filters \in Filters : GetDevices(filters)
  \/ PollTick(MaxTicks)
  \/ PollDevice
  \/ \E draw \in Draws : CollectSensor(draw)
  \/ \E i \in 1..Len(healthTimers), isOnline \in BOOLEAN : CheckDeviceHealth(i, isOnline)

SpecRegistry == Init /\ [][NextRegistry]_vars

\* registration, health checks, and the callbacks of the telemetry interval, which
\* interleave at their awaits with each other and with everything else
NextCycles ==
  \/ \E deviceConfig \in DeviceConfigs : RegisterDevice(deviceConfig, CycleDevices)
  \/ \E k \in 1..Len(intervals), draw \in Draws : IntervalFires(k, draw, CycleTicks, MaxCycles)
  \/ \E c \in 1..Len(cycles), draw \in Draws : CycleResume(c, draw)
  \/ \E c \in 1..Len(cycles), draw \in Draws : CycleGenerate(c, draw)
  \/ \E c \in 1..Len(cycles) : CycleStore(c)
  \/ \E c \in 1..Len(cycles) : CycleProcess(c)
  \/ \E i \in 1..Len(healthTimers), isOnline \in BOOLEAN : CheckDeviceHealth(i, isOnline)

SpecCycles == Init /\ [][NextCycles]_vars

\* the public operations that start timers, and the callbacks of the telemetry
\* intervals, each of which runs to its end before the next one starts
NextIntervals ==
  \/ \E deviceConfig \in DeviceConfigs : RegisterDevice(deviceConfig, IntervalDevices)
  \/ StartDataCollection(MaxIntervals)
  \/ \E k \in 1..Len(intervals), draw \in Draws : IntervalFires(k, draw, IntervalTicks, 1)
  \/ \E c \in 1..Len(cycles), draw \in Draws : CycleResume(c, draw)
  \/ \E c \in 1..Len(cycles), draw \in Draws : CycleGenerate(c, draw)
  \/ \E c \in 1..Len(cycles) : CycleStore(c)
  \/ \E c \in 1..Len(cycles) : CycleProcess(c)

SpecIntervals == Init /\ [][NextIntervals]_vars

\* security scans and overlapping firmware updates; the 2-second timer of a
\* waiting update fires, the timers in the order they were set
NextFirmware ==
  \/ \E deviceConfig \in DeviceConfigs : RegisterDevice(deviceConfig, FirmwareDevices)
  \/ \E deviceId \in CallIds, found \in BOOLEAN :
       PerformSecurityScan(deviceId, found)
  \/ \E deviceId \in CallIds, version \in Versions :
       UpdateDeviceFirmware(deviceId, version, FirmwareUpdates)
  \/ \E i \in 1..Len(fwUpdates) : FirmwareUpdated(i)
  \/ \E i \in 1..Len(healthTimers), isOnline \in BOOLEAN : CheckDeviceHealth(i, isOnline)

SpecFirmware == Init /\ [][NextFirmware]_vars /\ WF_vars(FirmwareUpdated(1))

\* the public operations of the AI service on assistants and models
NextAI ==
  \/ \E name \in {"", "Clerk"} : CreateAssistant(name, MaxAssistants)
  \/ \E assistantId \in AICallIds, ok \in BOOLEAN : Chat(assistantId, ok, MaxProviderCalls)
  \/ \E type \in ModelTypes : CreatePredictiveModel(type, MaxModels)
  \/ \E modelId \in AICallIds, dataOk \in BOOLEAN, accuracy \in Accuracies :
       TrainModel(modelId, dataOk, accuracy)
  \/ \E modelId \in AICallIds, dataOk \in BOOLEAN, confidence \in Accuracies :
       Predict(modelId, dataOk, confidence, MaxPredictions)

SpecAI == InitAI /\ [][NextAI]_vars

\* the enterprise integrations and their security, performance and failover operations
NextIntegrations ==
  \/ \E kind \in IntegrationKinds : IntegrateWith(kind, MaxIntegrations)
  \/ \E integrationId \in IntegrationCallIds, config \in EncryptionConfigs :
       EnableDataEncryption(integrationId, config)
  \/ \E integrationId \in IntegrationCallIds, config \in AuditConfigs :
       EnableAuditLogging(integrationId, config)
  \/ \E integrationId \in IntegrationCallIds, slow \in BOOLEAN, faulty \in BOOLEAN :
       OptimizeIntegrationPerformance(integrationId, slow, faulty)
  \/ \E primaryIntegrationId \in IntegrationCallIds, secondaryIntegrationId \in IntegrationCallIds :
       SetupFailover(primaryIntegrationId, secondaryIntegrationId)

SpecIntegrations == Init /\ [][NextIntegrations]_vars

\* the verifiable records of the blockchain service, created by calls that overlap
NextRecords ==
  \/ \E data \in RecordData : CreateVerifiableRecord(data, MaxRecords)
  \/ \E c \in 1..Len(recordCalls) : RecordHashed(c)
  \/ \E c \in 1..Len(recordCalls) : RecordStored(c)
  \/ ClockTick(MaxClock)

SpecRecords == Init /\ [][NextRecords]_vars

\* the municipal contracts of the blockchain service
NextContracts ==
  \/ \E type \in ContractTypes, uuid \in Uuids : DeployMunicipalContract(type, uuid, MaxContracts)
  \/ ExecuteCitationContract
  \/ ExecutePaymentContract

SpecContracts == Init /\ [][NextContracts]_vars

\* firmware updates of one device that overlap
NextOverlap ==
  \/ \E deviceConfig \in DeviceConfigs : RegisterDevice(deviceConfig, OverlapDevices)
  \/ \E deviceId \in CallIds, version \in Versions :
       StartFirmwareUpdate(deviceId, version, OverlapUpdates)
  \/ LatestVersionResolved
  \/ UpdateTimerFires

SpecOverlap == Init /\ [][NextOverlap]_vars

\* the devices whose sensors read across the humidity threshold
HandlerConfigs ==
  { [type |-> "sensor", location |-> [lat |-> 0, lng |-> 0],
     sensors |-> <<HumidityWide>>, connectivity |-> Wifi],
    [type |-> "sensor", location |-> [lat |-> 9, lng |-> 0],
     sensors |-> <<HumidityNarrow, HumidityWide>>, connectivity |-> Wifi] }

\* telemetry with handlers registered from outside, some of which throw
NextHandlers ==
  \/ \E deviceConfig \in HandlerConfigs : RegisterDevice(deviceConfig, HandlerDevices)
  \/ \E eventType \in EventTypes, handler \in CallerHandlers :
       AddEventListener(eventType, handler, HandlerLimit)
  \/ PollTick(HandlerTicks)
  \/ PollDevice
  \/ \E draw \in Draws : CollectSensor(draw)

SpecHandlers == Init /\ [][NextHandlers]_vars

\* one single-sensor device polled AnomalyTicks times
AnomalyConfig ==
  [type |-> "sensor", location |-> [lat |-> 0, lng |-> 0],
   sensors |-> <<HumidityWide>>, connectivity |-> Wifi]

NextAnomaly ==
  \/ RegisterDevice(AnomalyConfig, 1)
  \/ PollTick(AnomalyTicks)
  \/ PollDevice
  \/ \E draw \in Draws : CollectSensor(draw)

SpecAnomaly == Init /\ [][NextAnomaly]_vars

\* a humidity sensor whose range ends at the humidity threshold maximum: it
\* reads 79.98 or, clamped, 80.00
HumidityCapped == [type |-> "humidity", unit |-> "%", range |-> <<0, 8000>>, accuracy |-> 95]

\* one device with one sensor: a humidity sensor that reads across the
\* threshold maximum, one that is clamped to it, or a camera, whose type has no
\* threshold
ThresholdConfigs ==
  { [type |-> "sensor", location |-> [lat |-> 0, lng |-> 0],
     sensors |-> <<sensorConfig>>, connectivity |-> Wifi] :
      sensorConfig \in {HumidityWide, HumidityCapped, CameraSensor} }

NextThresholds ==
  \/ \E deviceConfig \in ThresholdConfigs : RegisterDevice(deviceConfig, 1)
  \/ PollTick(ThresholdTicks)
  \/ PollDevice
  \/ \E draw \in Draws : CollectSensor(draw)

SpecThresholds == Init /\ [][NextThresholds]_vars

\* one camera device polled until its history is full and entries are evicted;
\* every draw of the noise is 0.04
HistConfig ==
  [type |-> "camera", location |-> [lat |-> 0, lng |-> 0],
   sensors |-> <<CameraSensor>>, connectivity |-> Wifi]

\* The state the service is in after registerDevice(HistConfig) at time 0 and
\* HistFill complete poll cycles in which every noise draw was 0.04: the device
\* has id 1, its sensor id 2, and the i-th cycle appended reading 3 + i at time i.
FilledReading(i) ==
  generateSensorReading(NewDevice(HistConfig, 1).sensors[1], NewDevice(HistConfig, 1),
                        CHOOSE d \in Draws : d.noise = 4, 3 + i, i)

InitHist ==
  /\ now = HistFill
  /\ devices = <<[DeviceLiteral(HistConfig, 1, "online",
                     <<[NewSensor(CameraSensor, 1, 1) EXCEPT
                          !.lastReading = FilledReading(HistFill),
                          !.calibration.lastCalibrated = 0]>>)
                  EXCEPT !.connectivity.lastSeen = 0,
                         !.firmware.lastUpdate = 0,
                         !.security.lastSecurityScan = 0]>>
  /\ sensorReadings = MapSet(<<>>, 1, [i \in 1..HistFill |-> FilledReading(i)])
  /\ eventHandlers = <<>>
  /\ healthTimers = <<1>>
  /\ poll = Idle
  /\ nextId = 4 + HistFill
  /\ alerts = <<>>
  /\ appended = MapSet(<<>>, 1, [i \in 1..HistFill |-> 3 + i])
  /\ verdicts = {[type |-> "camera", value |-> 3000, verdict |-> "null"]}
  /\ fwUpdates = <<>>
  /\ ret = NoReturn
  /\ produced = [r \in {3 + i : i \in 1..HistFill} |->
                   [sensor |-> 2, interval |-> 1, period |-> r - 3]]
  /\ intervals = <<0>>
  /\ cycles = <<>>
  /\ assistants = <<>>
  /\ models = <<>>
  /\ providerCalls = <<>>
  /\ InitSvc
  /\ invoked = <<>>
  /\ fwLatest = <<>>
  /\ fwStarted = <<>>

NextHist ==
  \/ PollTick(HistFill + HistTicks)
  \/ PollDevice
  \/ \E draw \in Draws : CollectSensor(draw)

SpecHist == InitHist /\ [][NextHist]_vars

-----------------------------------------------------------------------------
(* Properties *)

\* the fixed part of a device's sensor list
SensorStatics(device) ==
  [j \in 1..Len(device.sensors) |->
     [id |-> device.sensors[j].id, type |-> device.sensors[j].type,
      unit |-> device.sensors[j].unit, range |-> device.sensors[j].range,
      accuracy |-> device.sensors[j].accuracy]]

\* a sensor that a poll has written
Polled(sensor) == sensor.lastReading.metadata # [empty |-> TRUE]

\* C1: the history of every registered device holds at most 1000 readings, and
\* they are the most recently appended readings of that device, in append order.
C1_HistoryIsNewestInOrder ==
  \A id \in DOMAIN sensorReadings :
    LET h == sensorReadings[id]
        a == appended[id]
    IN /\ Len(h) <= HistoryLimit
       /\ Len(h) = Min2(Len(a), HistoryLimit)
       /\ \A i \in 1..Len(h) : h[i].id = a[Len(a) - Len(h) + i]

\* C1 witness: a device whose history is full after entries have been evicted
C1_Witness ==
  \E id \in DOMAIN sensorReadings :
    /\ Len(appended[id]) > HistoryLimit + 1
    /\ Len(sensorReadings[id]) = HistoryLimit
    /\ sensorReadings[id][1].id # appended[id][1]

\* C2 (as claimed): every reading a poll generated for a sensor lies within
\* [range[0], range[1]] of that sensor, whatever range was registered.
C2_ReadingWithinRange ==
  \A i \in 1..Len(devices) : \A j \in 1..Len(devices[i].sensors) :
    LET sensor == devices[i].sensors[j]
    IN Polled(sensor) =>
         /\ sensor.range[1] <= sensor.lastReading.value
         /\ sensor.lastReading.value <= sensor.range[2]

\* C3 (as claimed): no anomaly alert is raised for a reading that fewer than 5
\* readings of the device preceded.
C3_NoAnomalyBeforeFivePrior ==
  \A i \in 1..Len(alerts) :
    alerts[i].type = "anomaly" => alerts[i].prior >= AnomalyMinReadings

\* C4: getDevices with only a location filter returns exactly the registered
\* devices whose computed distance to the query point is <= radius, each once.
C4_RadiusFilterExact ==
  (/\ ret.op = "getDevices"
   /\ ret.filters.location.given
   /\ ret.filters.type = "none"
   /\ ret.filters.status = "none")
  => /\ Range(ret.devices) =
          {devices[i].id : i \in
             {k \in 1..Len(devices) :
                calculateDistance(devices[k].location, ret.filters.location)
                  <= ret.filters.location.radius}}
     /\ \A m, n \in 1..Len(ret.devices) : ret.devices[m] = ret.devices[n] => m = n

\* C4 witness: a query whose radius is exactly the distance of one device, which
\* is returned, while a farther device is left out
C4_Witness ==
  /\ ret.op = "getDevices"
  /\ ret.filters.location.given
  /\ ret.filters.type = "none"
  /\ ret.filters.status = "none"
  /\ \E i, k \in 1..Len(devices) :
       /\ calculateDistance(devices[i].location, ret.filters.location)
            = ret.filters.location.radius
       /\ ret.filters.location.radius > 0
       /\ devices[i].id \in Range(ret.devices)
       /\ calculateDistance(devices[k].location, ret.filters.location)
            > ret.filters.location.radius
       /\ devices[k].id \notin Range(ret.devices)

\* C5: registerDevice with N sensor configs returns a device with N sensors of
\* the configured type, unit, range and accuracy, in order, each with
\* lastReading.value 0; and the sensors of a stored device keep lastReading.value
\* 0 as long as no poll has appended a reading for that device.
C5_SensorsAsConfigured ==
  /\ ret.op = "registerDevice" =>
       /\ Len(ret.device.sensors) = Len(ret.config.sensors)
       /\ \A j \in 1..Len(ret.config.sensors) :
            /\ ret.device.sensors[j].type = ret.config.sensors[j].type
            /\ ret.device.sensors[j].unit = ret.config.sensors[j].unit
            /\ ret.device.sensors[j].range = ret.config.sensors[j].range
            /\ ret.device.sensors[j].accuracy = ret.config.sensors[j].accuracy
            /\ ret.device.sensors[j].lastReading.value = 0
       /\ devices[Len(devices)] = ret.device
  /\ \A i \in 1..Len(devices) :
       appended[devices[i].id] = <<>> =>
         \A j \in 1..Len(devices[i].sensors) :
           /\ devices[i].sensors[j].lastReading.value = 0
           /\ ~Polled(devices[i].sensors[j])

\* C5 witness: a device with two sensors that a completed poll cycle passed over
\* (it was offline), next to one the cycle did process
C5_Witness ==
  /\ now > 0
  /\ poll.pc = "idle"
  /\ \E i, k \in 1..Len(devices) :
       /\ Len(devices[i].sensors) = 2
       /\ appended[devices[i].id] = <<>>
       /\ devices[i].sensors[2].lastReading.value = 0
       /\ appended[devices[k].id] # <<>>

\* C6: the threshold verdict depends on nothing but the sensor type and the
\* reading value: all evaluations recorded for one (type, value) pair, on whatever
\* sensor, device and history, gave the same verdict.
C6_VerdictFunctionOfTypeAndValue ==
  \A a, b \in verdicts :
    (a.type = b.type /\ a.value = b.value) => a.verdict = b.verdict

\* C6 witness: two sensors of the same type with different ranges, on different
\* devices, were checked with the same value, and some check found a violation
C6_Witness ==
  /\ \E i, k \in 1..Len(devices) :
       \E j \in 1..Len(devices[i].sensors), l \in 1..Len(devices[k].sensors) :
         /\ i # k
         /\ Polled(devices[i].sensors[j]) /\ Polled(devices[k].sensors[l])
         /\ devices[i].sensors[j].type = devices[k].sensors[l].type
         /\ devices[i].sensors[j].range # devices[k].sensors[l].range
         /\ devices[i].sensors[j].lastReading.value = devices[k].sensors[l].lastReading.value
  /\ \E a \in verdicts : a.verdict # "null"

\* C7: no step adds, removes or reorders the sensors of a registered device or
\* changes a sensor's id, type, unit, range or accuracy; a sensor's lastReading
\* changes only in the poll step that collects that sensor.
C7_SensorListFixed ==
  [][\A i \in 1..Len(devices) :
       /\ i <= Len(devices')
       /\ devices'[i].id = devices[i].id
       /\ SensorStatics(devices'[i]) = SensorStatics(devices[i])
       /\ \A j \in 1..Len(devices[i].sensors) :
            devices'[i].sensors[j].lastReading # devices[i].sensors[j].lastReading
              => /\ poll.pc = "collect" /\ poll.di = i /\ poll.si = j
                 /\ Len(appended'[devices[i].id]) = Len(appended[devices[i].id]) + 1]_vars

\* C7 witness: a device that has been polled, scanned, updated and given an edge
\* function, and has gone offline
C7_Witness ==
  \E i \in 1..Len(devices) :
    /\ Len(devices[i].sensors) > 0
    /\ Polled(devices[i].sensors[1])
    /\ devices[i].security.vulnerabilities # <<>>
    /\ devices[i].firmware.version = LatestFirmwareVersion
    /\ devices[i].status = "offline"
    /\ eventHandlers # <<>>

\* C8: a registered device id stays registered in every later state, and
\* getDevices() without filters returns all registered devices.
C8_DevicesNeverDeleted ==
  [][/\ DeviceIds \subseteq DeviceIds'
     /\ (ret'.op = "getDevices"
         /\ ret'.filters = [type |-> "none", status |-> "none", location |-> NoLocation])
        => /\ Range(ret'.devices) = DeviceIds'
           /\ Len(ret'.devices) = Len(devices')]_vars

\* C8 witness: getDevices() returns a device that is offline, was scanned and updated
C8_Witness ==
  /\ ret.op = "getDevices"
  /\ ret.filters = [type |-> "none", status |-> "none", location |-> NoLocation]
  /\ \E i \in 1..Len(devices) :
       /\ devices[i].id \in Range(ret.devices)
       /\ devices[i].status = "offline"
       /\ devices[i].firmware.version = LatestFirmwareVersion

\* C9: registerDevice completes for every device config, and returns a device
\* that is online, whose id no earlier device has, and which is stored in the
\* registry with an empty history.
C9_RegisterAlwaysSucceeds ==
  /\ Len(devices) < MaxDevices =>
       \A deviceConfig \in DeviceConfigs : ENABLED RegisterDevice(deviceConfig, MaxDevices)
  /\ ret.op = "registerDevice" =>
       /\ ret.device.status = "online"
       /\ devices[Len(devices)] = ret.device
       /\ \A i \in 1..(Len(devices) - 1) : devices[i].id # ret.device.id
       /\ ret.device.id \in DOMAIN sensorReadings
       /\ sensorReadings[ret.device.id] = <<>>

\* C9 witness: a second device has just been registered after the first one was polled
C9_Witness ==
  /\ ret.op = "registerDevice"
  /\ Len(devices) = 2
  /\ sensorReadings[devices[1].id] # <<>>

\* C10: in every state each registered device has exactly one health-check
\* timer and there are no others, and no step stops a timer.
TimersMatchDevices ==
  /\ Len(healthTimers) = Len(devices)
  /\ \A i \in 1..Len(devices) :
       Cardinality({t \in 1..Len(healthTimers) : healthTimers[t] = devices[i].id}) = 1

C10_OneTimerPerDevice ==
  [][/\ TimersMatchDevices
     /\ TimersMatchDevices'
     /\ Len(healthTimers') >= Len(healthTimers)
     /\ SubSeq(healthTimers', 1, Len(healthTimers)) = healthTimers]_vars

\* C10 witness: a registered device whose timer has taken it offline and is still running
C10_Witness ==
  /\ Len(healthTimers) = 1
  /\ devices[1].status = "offline"
  /\ healthTimers[1] = devices[1].id
  /\ now > 0

\* C11: a poll cycle that reaches an offline device moves on to the next device
\* and leaves the registry, the histories, the alerts and the logs of processed
\* readings as they are; it starts collecting only from a device that is online
\* at that moment; and a history grows only in a collect step of its device.
\* (Sensor events are raised by processReading only, inside the collect step.)
C11_OfflineDeviceSkipped ==
  [][/\ (/\ poll.pc = "iter" /\ poll' # poll
         /\ poll.di <= Len(devices)
         /\ devices[poll.di].status = "offline")
        => /\ poll' = [pc |-> "iter", di |-> poll.di + 1, si |-> 0]
           /\ UNCHANGED <<devices, sensorReadings, alerts, appended, produced, verdicts>>
     /\ (poll.pc = "iter" /\ poll'.pc = "collect")
        => /\ devices[poll.di].status = "online"
           /\ poll'.di = poll.di
     /\ \A id \in DOMAIN appended :
          (appended'[id] # appended[id] \/ sensorReadings'[id] # sensorReadings[id])
            => /\ poll.pc = "collect"
               /\ devices[poll.di].id = id
     /\ alerts' # alerts => poll.pc = "collect"]_vars

\* C11 witness: the running cycle has passed the first device, which has sensors,
\* is offline and has no reading, and is now at the second device
C11_Witness ==
  /\ poll.pc = "iter"
  /\ poll.di = 2
  /\ Len(devices) = 2
  /\ devices[1].status = "offline"
  /\ Len(devices[1].sensors) > 0
  /\ appended[devices[1].id] = <<>>

\* the ids of the sensors of a device, in list order
SensorIds(device) == [j \in 1..Len(device.sensors) |-> device.sensors[j].id]

\* the sensors for which the callback fired by `interval` for `period` has stored
\* a reading in the history of `device`, in the order of storing
StoredBy(device, interval, period) ==
  LET ByCallback(r) == produced[r].interval = interval /\ produced[r].period = period
      stored == SelectSeq(appended[device.id], ByCallback)
  IN [n \in 1..Len(stored) |-> produced[stored[n]].sensor]

\* the telemetry callbacks that have stored a reading
Callbacks == {[interval |-> produced[r].interval, period |-> produced[r].period] :
                r \in DOMAIN produced}

\* what one callback has stored for one device is the first m sensors of its list
\* in order; m is all of them or none once the callback has left the device
CycleOrder ==
  \A cb \in Callbacks : \A i \in 1..Len(devices) :
    LET stored == StoredBy(devices[i], cb.interval, cb.period)
        at == {c \in 1..Len(cycles) : /\ cycles[c].interval = cb.interval
                                      /\ cycles[c].period = cb.period
                                      /\ cycles[c].di = i
                                      /\ cycles[c].pc # "iter"}
    IN /\ Len(stored) <= Len(devices[i].sensors)
       /\ stored = SubSeq(SensorIds(devices[i]), 1, Len(stored))
       /\ \A c \in at :
            Len(stored) = IF cycles[c].pc = "process" THEN cycles[c].si ELSE cycles[c].si - 1
       /\ at = {} => Len(stored) \in {0, Len(devices[i].sensors)}

\* a reading is checked only once it is stored: a callback about to run the checks
\* holds a stored reading, one about to store holds a reading not yet stored, and
\* every alert is about a stored reading
ChecksAfterStore ==
  /\ \A c \in 1..Len(cycles) :
       /\ cycles[c].pc = "process" =>
            /\ cycles[c].reading.id \in DOMAIN produced
            /\ produced[cycles[c].reading.id].sensor =
                 devices[cycles[c].di].sensors[cycles[c].si].id
       /\ cycles[c].pc = "store" =>
            /\ cycles[c].reading.id \notin DOMAIN produced
            /\ \A a \in 1..Len(alerts) : alerts[a].reading # cycles[c].reading.id
  /\ \A a \in 1..Len(alerts) : alerts[a].reading \in DOMAIN produced

\* C12: per sensor a telemetry callback generates a reading, then appends it to the
\* history and sets lastReading to it in one step, then runs the checks; a
\* callback stores exactly one reading per sensor of a device it collects from, in
\* sensor-list order.
C12_StoreThenCheckInSensorOrder ==
  [][/\ CycleOrder /\ CycleOrder'
     /\ ChecksAfterStore /\ ChecksAfterStore'
     /\ \A id \in DOMAIN appended :
          appended'[id] # appended[id] =>
            \E c \in 1..Len(cycles) :
              /\ cycles[c].pc = "store" /\ cycles'[c].pc = "process"
              /\ devices[cycles[c].di].id = id
              /\ appended'[id] = Append(appended[id], cycles[c].reading.id)
              /\ sensorReadings'[id][Len(sensorReadings'[id])] = cycles[c].reading
              /\ Len(sensorReadings'[id]) = Min2(Len(sensorReadings[id]) + 1, HistoryLimit)
              /\ devices'[cycles[c].di].sensors[cycles[c].si].lastReading = cycles[c].reading
     /\ (alerts' # alerts \/ verdicts' # verdicts) =>
          \E c \in 1..Len(cycles) : cycles[c].pc = "process" /\ cycles'[c].pc # "process"]_vars

\* C12 witness: two callbacks have collected from a device with two sensors and
\* ended; the second one stored its first reading before the first one stored its
\* second
C12_Witness ==
  /\ cycles = <<>>
  /\ \E i \in 1..Len(devices) :
       /\ Len(devices[i].sensors) = 2
       /\ Len(appended[devices[i].id]) = 4
       /\ produced[appended[devices[i].id][1]].sensor = devices[i].sensors[1].id
       /\ produced[appended[devices[i].id][2]].sensor = devices[i].sensors[1].id
       /\ produced[appended[devices[i].id][2]].period # produced[appended[devices[i].id][1]].period
       /\ devices[i].status = "offline"

\* C13: in every state, that is wherever another callback can run, the
\* lastReading of each sensor is the reading that was appended to the history
\* last among those stored for that sensor, the history holds that very reading
\* under its id, and a sensor nothing was stored for still has its initial slot.
C13_LastReadingIsLatestEntry ==
  \A i \in 1..Len(devices) : \A j \in 1..Len(devices[i].sensors) :
    LET sensor == devices[i].sensors[j]
        a == appended[devices[i].id]
        h == sensorReadings[devices[i].id]
        own == {n \in 1..Len(a) : produced[a[n]].sensor = sensor.id}
    IN IF own = {} THEN ~Polled(sensor)
       ELSE /\ sensor.lastReading.id = a[CHOOSE n \in own : \A m \in own : m <= n]
            /\ \A n \in 1..Len(h) : h[n].id = sensor.lastReading.id => h[n] = sensor.lastReading
            /\ \E n \in 1..Len(h) : h[n].id = sensor.lastReading.id

\* C13 witness: a callback was overtaken: a reading generated earlier was stored
\* after a later one of the same sensor, and is the sensor's lastReading
C13_Witness ==
  \E i \in 1..Len(devices) : \E j \in 1..Len(devices[i].sensors) :
    LET sensor == devices[i].sensors[j]
        h == sensorReadings[devices[i].id]
    IN \E n, m \in 1..Len(h) :
         /\ n < m
         /\ produced[h[n].id].sensor = sensor.id
         /\ produced[h[m].id].sensor = sensor.id
         /\ h[n].id > h[m].id
         /\ sensor.lastReading = h[m]

\* C14 (as claimed): whatever public operations were called, no sensor gets two
\* readings for the same tick period.
C14_OneReadingPerPeriod ==
  \A r1, r2 \in DOMAIN produced :
    (/\ produced[r1].sensor = produced[r2].sensor
     /\ produced[r1].period = produced[r2].period) => r1 = r2

\* C15: a call that fails with an error fails with 'Device not found' and changes
\* nothing but what the caller gets; handlers are registered, firmware updates
\* started and scan results stored for registered devices only.
C15_UnknownDeviceRejected ==
  [][/\ ret'.op = "error" =>
          /\ ret'.message = "Device not found"
          /\ ret'.call \in {"deployEdgeFunction", "performSecurityScan", "updateDeviceFirmware"}
          /\ UNCHANGED <<devices, sensorReadings, eventHandlers, healthTimers, poll, now,
                         nextId, alerts, appended, verdicts, fwUpdates, produced,
                         intervals, cycles>>
     /\ ret'.op = "deployEdgeFunction" => ret'.deviceId \in DeviceIds
     /\ eventHandlers' # eventHandlers =>
          /\ ret'.op = "deployEdgeFunction"
          /\ \A t \in DOMAIN eventHandlers' : \A n \in 1..Len(eventHandlers'[t]) :
               eventHandlers'[t][n].deviceId \in DeviceIds
     /\ \A n \in 1..Len(fwUpdates') : fwUpdates'[n].deviceId \in DeviceIds]_vars

\* C15 witness: updateDeviceFirmware of an unknown id has just failed, on a
\* service with a scanned device, a registered handler and an update under way
C15_Witness ==
  /\ ret = DeviceNotFound("updateDeviceFirmware")
  /\ Len(devices) = 1
  /\ devices[1].security.vulnerabilities # <<>>
  /\ eventHandlers # <<>>
  /\ fwUpdates # <<>>

\* the ids a device can get when FirmwareDevices devices are registered: a
\* registration draws at most five UUIDs
FirmwareIds == 1..(5 * FirmwareDevices)

\* C16: for a registered device a security scan can always run and returns the
\* list it stored in the device; an update targets the requested version, or
\* '2.1.0' when none is given; when an update completes the device has that
\* version and updateAvailable false; and every update that is waiting for its
\* timer eventually completes in this way.
C16_ScanAndUpdateComplete ==
  /\ [](\A d \in DeviceIds, found \in BOOLEAN : ENABLED PerformSecurityScan(d, found))
  /\ [][/\ ret'.op = "performSecurityScan" =>
             \E k \in 1..Len(devices) :
               /\ devices'[k].security.vulnerabilities = ret'.vulnerabilities
               /\ devices'[k].security.lastSecurityScan = now
        /\ \A d \in DeviceIds, version \in Versions :
             UpdateDeviceFirmware(d, version, FirmwareUpdates) =>
               fwUpdates' = Append(fwUpdates,
                 [deviceId |-> d,
                  targetVersion |-> IF version = "" THEN "2.1.0" ELSE version])
        /\ Len(fwUpdates') < Len(fwUpdates) =>
             \E i \in 1..Len(fwUpdates) :
               LET k == DeviceIndex(fwUpdates[i].deviceId)
               IN /\ ret' = [op |-> "updateDeviceFirmware", deviceId |-> fwUpdates[i].deviceId]
                  /\ devices'[k].firmware.version = fwUpdates[i].targetVersion
                  /\ devices'[k].firmware.updateAvailable = FALSE]_vars
  /\ \A d \in FirmwareIds, v \in {"2.1.0", "3.0.0"} :
       (fwUpdates # <<>> /\ fwUpdates[1] = [deviceId |-> d, targetVersion |-> v])
         ~> (/\ ret = [op |-> "updateDeviceFirmware", deviceId |-> d]
             /\ devices[DeviceIndex(d)].firmware.version = v
             /\ devices[DeviceIndex(d)].firmware.updateAvailable = FALSE)

\* C16 witness: of two overlapping updates of a scanned device the one to 3.0.0
\* has completed while the other one is still waiting
C16_Witness ==
  /\ ret.op = "updateDeviceFirmware"
  /\ Len(devices) = 1
  /\ devices[1].firmware.version = "3.0.0"
  /\ devices[1].security.vulnerabilities # <<>>
  /\ fwUpdates = <<[deviceId |-> devices[1].id, targetVersion |-> "2.1.0"]>>

\* C17: trainModel and predict with an id no model has fail with 'Model not
\* found', chat with an id no assistant has fails with 'Assistant not found'; such
\* a step leaves the assistants, the models and the provider calls as they are.
C17_UnknownIdsRejected ==
  [][/\ \A id \in AICallIds \ ModelIds :
          \A dataOk \in BOOLEAN, draw \in Accuracies :
            /\ TrainModel(id, dataOk, draw) => ret' = Thrown("trainModel", "Model not found")
            /\ Predict(id, dataOk, draw, MaxPredictions) =>
                 ret' = Thrown("predict", "Model not found")
     /\ \A id \in AICallIds \ AssistantIds : \A ok \in BOOLEAN :
          Chat(id, ok, MaxProviderCalls) => ret' = Thrown("chat", "Assistant not found")
     /\ (ret'.op = "error" /\ ret'.message \in {"Model not found", "Assistant not found"})
          => UNCHANGED <<assistants, models, providerCalls, nextId>>
     /\ (ret'.op = "error" /\ ret'.message = "Model not found")
          => ret'.call \in {"trainModel", "predict"}
     /\ (ret'.op = "error" /\ ret'.message = "Assistant not found") => ret'.call = "chat"]_vars

\* C17 witness: chat has just failed with 'Assistant not found' on a service that
\* has an assistant, a trained model with a prediction, and has called the provider
C17_Witness ==
  /\ ret = Thrown("chat", "Assistant not found")
  /\ assistants # <<>>
  /\ providerCalls # <<>>
  /\ \E i \in 1..Len(models) : models[i].accuracy > 0 /\ models[i].predictions # <<>>

\* the readings an 'anomaly' alert was raised for
Flagged == {alerts[a].reading : a \in {b \in 1..Len(alerts) : alerts[b].type = "anomaly"}}

\* the reading deviates from the mean of the window by more than twice the
\* population standard deviation of the window, in exact arithmetic
BeyondTwoSigma(window, reading) ==
  LET n == Len(window)
      total == SumValues(window)
  IN n * (n * reading.value - total) * (n * reading.value - total)
       > 4 * SumSqDev(window, n, total)

\* C18 (as claimed): a reading is flagged as an anomaly exactly when the window
\* of the last 10 readings up to it holds at least 5 readings and the reading
\* deviates from the window mean by strictly more than 2 standard deviations; a
\* deviation of exactly 2 standard deviations is not flagged.
C18_FlaggedIffBeyondTwoSigma ==
  \A id \in DOMAIN sensorReadings :
    LET h == sensorReadings[id]
    IN Len(h) = Len(appended[id]) =>
         \A p \in 1..Len(h) :
           LET window == SubSeq(h, Max2(1, p - AnomalyWindow + 1), p)
           IN h[p].id \in Flagged
                <=> (Len(window) >= AnomalyMinReadings /\ BeyondTwoSigma(window, h[p]))

\* C19: a collect step raises a 'threshold' alert for its reading exactly when the
\* sensor type is temperature, humidity, motion or microphone and the value is
\* strictly outside the band of that type, with the severity of that type,
\* whether or not it raises an 'anomaly' alert; the anomaly alert comes first;
\* nothing else raises an alert.
C19_ThresholdAlertIffOutOfBand ==
  [][IF poll.pc = "collect"
     THEN LET sensor == devices[poll.di].sensors[poll.si]
              h == sensorReadings'[devices[poll.di].id]
              reading == h[Len(h)]
              raised == SubSeq(alerts', Len(alerts) + 1, Len(alerts'))
              band == CASE sensor.type = "temperature" -> <<0 - 1000, 4000, "medium">>
                        [] sensor.type = "humidity" -> <<2000, 8000, "low">>
                        [] sensor.type = "motion" -> <<0, 8000, "high">>
                        [] sensor.type = "microphone" -> <<0, 8500, "medium">>
                        [] OTHER -> <<0, 0, "none">>
              outOfBand == /\ band[3] # "none"
                           /\ (reading.value < band[1] \/ reading.value > band[2])
              thresholdAlerts == {a \in 1..Len(raised) : raised[a].type = "threshold"}
              anomalyAlerts == {a \in 1..Len(raised) : raised[a].type = "anomaly"}
          IN /\ SubSeq(alerts', 1, Len(alerts)) = alerts
             /\ \A a \in 1..Len(raised) : raised[a].reading = reading.id
             /\ Cardinality(thresholdAlerts) = IF outOfBand THEN 1 ELSE 0
             /\ \A a \in thresholdAlerts : raised[a].severity = band[3]
             /\ Cardinality(anomalyAlerts) <= 1
             /\ \A a \in anomalyAlerts : \A b \in thresholdAlerts : a < b
             /\ thresholdAlerts \cup anomalyAlerts = 1..Len(raised)
     ELSE alerts' = alerts]_vars

\* C19 witness: the sixth reading of a device, 80.03 after five of 79.98, raised
\* an anomaly alert and then a threshold alert
C19_Witness ==
  \E a \in 1..(Len(alerts) - 1) :
    /\ alerts[a].type = "anomaly"
    /\ alerts[a].prior = 5
    /\ alerts[a + 1].type = "threshold"
    /\ alerts[a + 1].reading = alerts[a].reading
    /\ alerts[a + 1].severity = "low"

\* the quality of a reading of `sensor` with this value
QualityOf(sensor, value) ==
  LET inRange == sensor.range[1] <= value /\ value <= sensor.range[2]
  IN IF inRange /\ sensor.accuracy > 90 THEN "excellent"
     ELSE IF inRange /\ sensor.accuracy > 80 THEN "good"
     ELSE IF inRange /\ sensor.accuracy > 60 THEN "fair"
     ELSE "poor"

\* every stored reading carries the quality that follows from the accuracy of its
\* sensor and from whether its value is in the sensor's range
QualityFromAccuracyAndRange ==
  \A i \in 1..Len(devices) :
    LET h == sensorReadings[devices[i].id]
    IN /\ \A j \in 1..Len(devices[i].sensors) :
            Polled(devices[i].sensors[j]) =>
              devices[i].sensors[j].lastReading.quality =
                QualityOf(devices[i].sensors[j], devices[i].sensors[j].lastReading.value)
       /\ \A n \in 1..Len(h) : \A j \in 1..Len(devices[i].sensors) :
            produced[h[n].id].sensor = devices[i].sensors[j].id =>
              h[n].quality = QualityOf(devices[i].sensors[j], h[n].value)

\* C20: the quality of a reading is excellent, good, fair or poor by the
\* accuracy of its sensor when the value is in the sensor's range and poor
\* otherwise, whatever the checks found and the history holds; and no step changes
\* the quality of a reading that is in a history.
C20_QualityFixedByAccuracyAndRange ==
  [][/\ QualityFromAccuracyAndRange
     /\ QualityFromAccuracyAndRange'
     /\ \A id \in DOMAIN sensorReadings :
          \A n \in 1..Len(sensorReadings[id]) : \A m \in 1..Len(sensorReadings'[id]) :
            sensorReadings'[id][m].id = sensorReadings[id][n].id =>
              sensorReadings'[id][m].quality = sensorReadings[id][n].quality]_vars

\* C20 witness: a reading of quality poor from a sensor of accuracy 0.95, whose
\* value is outside the range, and one of quality good from a sensor of accuracy 0.9
C20_Witness ==
  \E i, k \in 1..Len(devices) :
    /\ Len(devices[i].sensors) > 0 /\ Len(devices[k].sensors) > 0
    /\ devices[i].sensors[1].accuracy = 95
    /\ Polled(devices[i].sensors[1])
    /\ devices[i].sensors[1].lastReading.quality = "poor"
    /\ devices[k].sensors[1].accuracy = 90
    /\ Polled(devices[k].sensors[1])
    /\ devices[k].sensors[1].lastReading.quality = "good"
    /\ sensorReadings[devices[k].id] # <<>>

\* the registered device satisfies every filter that was supplied
Satisfies(device, filters) ==
  /\ filters.type # "none" => device.type = filters.type
  /\ filters.status # "none" => device.status = filters.status
  /\ filters.location.given =>
       calculateDistance(device.location, filters.location) <= filters.location.radius

\* C21: getDevices returns exactly the registered devices that satisfy every
\* supplied filter (type, status, distance within radius), each once, and all
\* registered devices when no filter is supplied; the call changes no device,
\* history or handler.
C21_FiltersAreConjunctive ==
  [][ret'.op = "getDevices" /\ ret' # ret =>
       /\ Range(ret'.devices) =
            {devices[i].id : i \in {k \in 1..Len(devices) : Satisfies(devices[k], ret'.filters)}}
       /\ \A m, n \in 1..Len(ret'.devices) : ret'.devices[m] = ret'.devices[n] => m = n
       /\ (ret'.filters.type = "none" /\ ret'.filters.status = "none"
             /\ ~ret'.filters.location.given) =>
            Len(ret'.devices) = Len(devices)
       /\ UNCHANGED <<devices, sensorReadings, eventHandlers, healthTimers, alerts>>]_vars

\* C21 witness: a lookup with all three filters over two devices that have
\* readings; one device is returned, the other satisfies the type and the
\* location filter and is left out for its status
C21_Witness ==
  /\ ret.op = "getDevices"
  /\ ret.filters.type # "none" /\ ret.filters.status # "none" /\ ret.filters.location.given
  /\ \E i, k \in 1..Len(devices) :
       /\ devices[i].id \in Range(ret.devices)
       /\ sensorReadings[devices[i].id] # <<>>
       /\ devices[k].id \notin Range(ret.devices)
       /\ devices[k].type = ret.filters.type
       /\ calculateDistance(devices[k].location, ret.filters.location)
            <= ret.filters.location.radius
       /\ devices[k].status # ret.filters.status

\* the step changed the status or the lastSeen stamp of the k-th device
HealthChanged(k) ==
  \/ devices'[k].status # devices[k].status
  \/ devices'[k].connectivity.lastSeen # devices[k].connectivity.lastSeen

\* C22: the status of a registered device is always 'online' or 'offline'; a step
\* that changes a device's status or lastSeen changes nothing else of that
\* device, no other device, no history and no handler, and changes lastSeen
\* only when the new status is 'online'; a health check that puts an offline
\* device back online is always possible.
C22_HealthCheckFrame ==
  /\ [](\A k \in 1..Len(devices) : devices[k].status \in {"online", "offline"})
  /\ [][\A k \in 1..Len(devices) :
          HealthChanged(k) =>
            /\ devices' = [devices EXCEPT
                 ![k].status = devices'[k].status,
                 ![k].connectivity.lastSeen = devices'[k].connectivity.lastSeen]
            /\ devices'[k].connectivity.lastSeen # devices[k].connectivity.lastSeen
                 => devices'[k].status = "online"
                    /\ devices'[k].connectivity.lastSeen = now
            /\ UNCHANGED <<sensorReadings, eventHandlers, healthTimers, alerts>>]_vars
  /\ [](\A k \in 1..Len(devices) :
          devices[k].status = "offline" =>
            ENABLED (/\ \E i \in 1..Len(healthTimers) : CheckDeviceHealth(i, TRUE)
                     /\ devices'[k].status = "online"))

\* C22 witness: of two devices registered at time 0, a health check left one
\* offline with its lastSeen untouched, and one at time 1 stamped the other,
\* which is online and has a reading
C22_Witness ==
  \E i, k \in 1..Len(devices) :
    /\ devices[i].status = "offline"
    /\ devices[i].connectivity.lastSeen = 0
    /\ now = 1
    /\ devices[k].status = "online"
    /\ devices[k].firmware.lastUpdate = 0
    /\ devices[k].connectivity.lastSeen = 1
    /\ sensorReadings[devices[k].id] # <<>>

\* the operation a returned value or thrown error belongs to
Called(r) == IF r.op = "error" THEN r.call ELSE r.op

\* C23: enableDataEncryption, enableAuditLogging and
\* optimizeIntegrationPerformance called with an unknown integration id, and
\* setupFailover called with an unknown primary or secondary id, throw
\* 'Integration not found' and change no stored integration.
C23_UnknownIntegrationRejected ==
  [][(/\ ret' # ret
      /\ Called(ret') \in {"enableDataEncryption", "enableAuditLogging",
                           "optimizeIntegrationPerformance", "setupFailover"}
      /\ \E n \in 1..Len(ret'.ids) : ret'.ids[n] \notin IntegrationIds)
     => /\ ret'.op = "error"
        /\ ret'.message = "Integration not found"
        /\ integrations' = integrations]_vars

\* C23 witness: setupFailover was called with a stored primary and an unknown
\* secondary and threw, while a stored integration has encryption enabled
C23_Witness ==
  /\ ret.op = "error"
  /\ ret.call = "setupFailover"
  /\ ret.message = "Integration not found"
  /\ ret.ids[1] \in IntegrationIds
  /\ ret.ids[2] \notin IntegrationIds
  /\ \E i \in 1..Len(integrations) : integrations[i].config.encryption.enabled

\* C24: the device ids that have a history list are exactly the registered
\* device ids, and every reading in a device's history carries that device's
\* id in its metadata.
C24_HistoriesBelongToDevices ==
  /\ DOMAIN sensorReadings = DeviceIds
  /\ \A id \in DOMAIN sensorReadings :
       \A n \in 1..Len(sensorReadings[id]) :
         sensorReadings[id][n].metadata.deviceId = id

\* C24 witness: two registered devices, each with a reading in its own history
C24_Witness ==
  /\ Len(devices) = 2
  /\ \A i \in 1..Len(devices) :
       /\ devices[i].id \in DOMAIN sensorReadings
       /\ sensorReadings[devices[i].id] # <<>>

\* the handlers registered for an event type, in registration order
HandlersOf(eventType) ==
  IF eventType \in DOMAIN eventHandlers THEN eventHandlers[eventType] ELSE <<>>

\* one call per handler of each event in turn, for the reading with this id
RECURSIVE CallsOf(_, _)
CallsOf(events, readingId) ==
  IF events = <<>> THEN <<>>
  ELSE [i \in 1..Len(HandlersOf(events[1])) |->
          [event |-> events[1], handler |-> HandlersOf(events[1])[i], reading |-> readingId]]
       \o CallsOf(Tail(events), readingId)

\* C25: a collect step calls, for each event it dispatches (the alerts it raised,
\* then the sensor event), every handler registered for that event type once, in
\* registration order, also after a handler that throws, and goes on to the
\* next sensor or device; no other step calls a handler, and the handler list
\* of an event type only grows.
C25_EveryHandlerInvokedInOrder ==
  [][/\ \A e \in DOMAIN eventHandlers :
          /\ e \in DOMAIN eventHandlers'
          /\ Len(eventHandlers'[e]) >= Len(eventHandlers[e])
          /\ SubSeq(eventHandlers'[e], 1, Len(eventHandlers[e])) = eventHandlers[e]
     /\ IF poll.pc = "collect" /\ poll' # poll
        THEN LET device == devices[poll.di]
                 sensor == device.sensors[poll.si]
                 h == sensorReadings'[device.id]
                 raised == SubSeq(alerts', Len(alerts) + 1, Len(alerts'))
                 events == [a \in 1..Len(raised) |-> "alert:" \o raised[a].type]
                             \o <<"sensor:" \o sensor.type>>
                 calls == SubSeq(invoked', Len(invoked) + 1, Len(invoked'))
             IN /\ SubSeq(invoked', 1, Len(invoked)) = invoked
                /\ [i \in 1..Len(calls) |->
                      [event |-> calls[i].event, handler |-> calls[i].handler,
                       reading |-> calls[i].reading]]
                     = CallsOf(events, h[Len(h)].id)
                /\ poll' = IF poll.si < Len(device.sensors)
                           THEN [pc |-> "collect", di |-> poll.di, si |-> poll.si + 1]
                           ELSE [pc |-> "iter", di |-> poll.di + 1, si |-> 0]
        ELSE invoked' = invoked]_vars

\* C25 witness: a handler threw, the handler registered after it for the same
\* event was called for the same reading, and a later reading of the same poll
\* cycle was dispatched as well
C25_Witness ==
  \E i, k \in 1..Len(invoked) :
    /\ i + 1 < k
    /\ invoked[i].outcome = "caught"
    /\ invoked[i + 1].event = invoked[i].event
    /\ invoked[i + 1].reading = invoked[i].reading
    /\ invoked[i + 1].handler = HandlersOf(invoked[i].event)[2]
    /\ invoked[k].reading # invoked[i].reading
    /\ now = 1

\* the window detectAnomaly used for the p-th entry of the history h
WindowAt(h, p) == SubSeq(h, Max2(1, p - AnomalyWindow + 1), p)

\* every reading of the window has the same value
Constant(window) == \A m, n \in 1..Len(window) : window[m].value = window[n].value

TargetsFor(deviceId) ==
  LET Mine(call) == call.deviceId = deviceId
      calls == SelectSeq(fwStarted, Mine)
  IN [i \in 1..Len(calls) |-> calls[i].targetVersion]

\* a call for this device has not completed yet
Updating(deviceId) ==
  \/ \E i \in 1..Len(fwUpdates) : fwUpdates[i].deviceId = deviceId
  \/ \E i \in 1..Len(fwLatest) : fwLatest[i] = deviceId

\* C27 (as claimed): once the updateDeviceFirmware calls made for a device have
\* all completed, the device has the target version of the call that was
\* started last and updateAvailable is false; and the device never shows a
\* version other than its initial one and those the calls requested.
C27_LastStartedUpdateWins ==
  \A k \in 1..Len(devices) :
    LET targets == TargetsFor(devices[k].id)
    IN /\ devices[k].firmware.version \in {"1.0.0"} \cup Range(targets)
       /\ (targets # <<>> /\ ~Updating(devices[k].id)) =>
            /\ devices[k].firmware.version = targets[Len(targets)]
            /\ devices[k].firmware.updateAvailable = FALSE

\* C28 (as claimed): the stored records form one linear hash chain, also when
\* createVerifiableRecord calls overlap: the first stored record has the
\* previousHash of 64 zeros, every later one the hash of the record stored
\* immediately before it, and no two stored records share a previousHash.
C28_SingleHashChain ==
  /\ records # <<>> => records[1].previousHash = GenesisHash
  /\ \A i \in 2..Len(records) : records[i].previousHash = records[i - 1].hash
  /\ \A i, j \in 1..Len(records) :
       records[i].previousHash = records[j].previousHash => i = j

\* C29 (as claimed): executeCitationContract returns a transaction id once a
\* contract was deployed for 'citation' and throws 'Contract of type citation not
\* found' before that; likewise executePaymentContract for 'payment'.
C29_ExecuteSucceedsAfterDeploy ==
  /\ Called(ret) = "executeCitationContract" =>
       IF \E i \in 1..Len(contracts) : contracts[i].deployedAs = "citation"
       THEN ret.op # "error"
       ELSE ret.op = "error" /\ ret.message = "Contract of type citation not found"
  /\ Called(ret) = "executePaymentContract" =>
       IF \E i \in 1..Len(contracts) : contracts[i].deployedAs = "payment"
       THEN ret.op # "error"
       ELSE ret.op = "error" /\ ret.message = "Contract of type payment not found"

\* C30 (as claimed): when predictMaintenanceNeeds has run, the health score it
\* computed for every registered device, one without sensors included, is a
\* number in [0, 1]; the predictions are about exactly the devices whose score
\* is below 0.8, each with probability 1 - score and a timeToFailure of at
\* least 1 hour.
C30_HealthScoreInUnitInterval ==
  ret.op = "predictMaintenanceNeeds" =>
    /\ \A k \in 1..Len(devices) :
         /\ ~calculateDeviceHealth(devices[k]).nan
         /\ calculateDeviceHealth(devices[k]).score \in 0..1000
    /\ {ret.predictions[p].deviceId : p \in 1..Len(ret.predictions)} =
         {devices[k].id : k \in {j \in 1..Len(devices) :
                                   calculateDeviceHealth(devices[j]).score < 800}}
    /\ \A p \in 1..Len(ret.predictions) :
         /\ ret.predictions[p].timeToFailure >= 1000
         /\ \E k \in 1..Len(devices) :
              /\ devices[k].id = ret.predictions[p].deviceId
              /\ ret.predictions[p].probability =
                   1000 - calculateDeviceHealth(devices[k]).score

=============================================================================
